---- MODULE Spec2Model ----
(***************************************************************************)
(* Robot configuration registry and runtime override engine of             *)
(* dexbot_utils.                                                           *)
(*                                                                         *)
(* Component objects live in a heap and are referred to by identity: a     *)
(* configuration's components / sensors maps hold object ids.  The heap    *)
(* holds the objects that some configuration still refers to; an object    *)
(* nobody refers to any more is collected, and a constructor takes the     *)
(* smallest id that is free at the moment it runs, so a constructed object *)
(* is never identical to an object that is alive at that moment.  Every    *)
(* object is stored under one key of one configuration, as the dataclass   *)
(* factories and the tests build them.                                     *)
(***************************************************************************)
EXTENDS Integers, Sequences, FiniteSets, TLC

VARIABLES
    registry,   \* ConfigRegistry._registry: sequence of [variant, config_class]
    configs,    \* the configuration instances callers hold: slot -> BaseRobotConfig
    heap,       \* object id -> component object
    call,       \* the most recent call: its arguments, its warnings, what it raised
    env,        \* os.environ: ROBOT_CONFIG and ROBOT_NAME
    fs,         \* the files under the description package: path -> content
    robot,      \* the RobotInfo instance the caller holds, if any
    parsers,    \* URDFParser objects: id -> parser
    caches      \* the lru_cache of _helpers and that of urdf_utils

vars == <<registry, configs, heap, call, env, fs, robot, parsers, caches>>

\* the state of the RobotInfo side: the environment, the files, the facade,
\* the parsers and the caches
infoVars == <<env, fs, robot, parsers, caches>>

----------------------------------------------------------------------------
(* Who holds configurations *)

\* the caller's variables that hold a configuration instance; the caller
\* changes the one in config1
Holders == {"config1", "config2"}

----------------------------------------------------------------------------
(* hand.py *)

HandType == {"UNKNOWN", "HandF5D6_V1", "HandF5D6_V2", "DexGripper"}

----------------------------------------------------------------------------
(* Component kinds (configs/components) *)

HandKinds == {"DexSGripperConfig", "DexDGripperConfig", "F5D6HandV1Config", "F5D6HandV2Config"}

\* classes whose dataclass declares a `side` field
HasSide(kind) == kind \in HandKinds \cup {"Vega1ArmConfig", "ZedXOneCameraConfig"}

\* hasattr(obj, "enable_ee_pass_through"): only Vega1ArmConfig declares it
HasPassThrough(kind) == kind = "Vega1ArmConfig"

\* the IMU classes of configs/components/sensors/imu: sensor kinds, disabled
\* by default
ImuKinds == {"ChassisIMUConfig", "ZedIMUConfig"}

\* classes under configs/components/sensors override enabled to False
SensorKinds == {"CameraConfig", "ZedXCameraConfig", "ZedXOneCameraConfig", "Lidar3DConfig",
                "UltraSonicConfig"} \cup ImuKinds

\* K() / K(side=side): a component object with the dataclass defaults.  A field
\* the class does not declare is held at a fixed filler value ("" / FALSE).
Construct(kind, side) ==
    [kind |-> kind,
     enabled |-> kind \notin SensorKinds,
     side |-> IF HasSide(kind) THEN side ELSE "",
     pv_mode |-> kind \in {"Vega1TorsoConfig", "Vega1HeadConfig"},
     enable_ee_pass_through |-> HasPassThrough(kind)]

----------------------------------------------------------------------------
(* Heap *)

\* id of the next object constructed for the configuration of holder o: an
\* id is <<o, n>>, with n the smallest number no live object of o has
NewId(h, o) ==
    <<o, CHOOSE i \in 1..(Cardinality(DOMAIN h) + 1) :
            <<o, i>> \notin DOMAIN h /\ \A j \in 1..(i - 1) : <<o, j>> \in DOMAIN h>>

Put(f, k, v) == [x \in DOMAIN f \cup {k} |-> IF x = k THEN v ELSE f[x]]

Del(f, k) == [x \in DOMAIN f \ {k} |-> f[x]]

Range(f) == {f[x] : x \in DOMAIN f}

\* ids a configuration refers to
Refs(cfg) == Range(cfg.components) \cup Range(cfg.sensors)

Live(cs) == UNION {Refs(cs[s]) : s \in DOMAIN cs}

\* drop the objects no configuration refers to
Collect(h, cs) == [i \in DOMAIN h \cap Live(cs) |-> h[i]]

\* construct the objects of a default_factory dict, in its order:
\* items is a sequence of <<key, kind, side>>
RECURSIVE BuildDict(_, _, _, _)
BuildDict(h, o, items, acc) ==
    IF items = <<>> THEN [heap |-> h, map |-> acc]
    ELSE LET it == Head(items)
             id == NewId(h, o)
         IN BuildDict(Put(h, id, Construct(it[2], it[3])), o, Tail(items), Put(acc, it[1], id))

EmptyMap == [x \in {} |-> 0]

----------------------------------------------------------------------------
(* Strings: a str is the sequence of its characters *)

Lower == {"a", "b", "c", "d", "e", "f", "g", "h", "i", "j", "k", "l", "m",
          "n", "o", "p", "q", "r", "s", "t", "u", "v", "w", "x", "y", "z"}

Upper == {"A", "B", "C", "D", "E", "F", "G", "H", "I", "J", "K", "L", "M",
          "N", "O", "P", "Q", "R", "S", "T", "U", "V", "W", "X", "Y", "Z"}

Digits == {"0", "1", "2", "3", "4", "5", "6", "7", "8", "9"}

\* "".join(s)
RECURSIVE Join(_)
Join(s) == IF s = <<>> THEN "" ELSE Head(s) \o Join(Tail(s))

\* s.startswith(old)
StartsWith(s, old) == Len(s) >= Len(old) /\ SubSeq(s, 1, Len(old)) = old

\* s[n:]
From(s, n) == SubSeq(s, n + 1, Len(s))

\* s.replace(old, new) for a non-empty old: every occurrence, left to right
RECURSIVE Replace(_, _, _)
Replace(s, old, new) ==
    IF s = <<>> THEN <<>>
    ELSE IF StartsWith(s, old) THEN new \o Replace(From(s, Len(old)), old, new)
    ELSE <<Head(s)>> \o Replace(Tail(s), old, new)

\* s.split(sep) for a one-character sep: acc is the part being read
RECURSIVE SplitFrom(_, _, _)
SplitFrom(s, sep, acc) ==
    IF s = <<>> THEN <<acc>>
    ELSE IF Head(s) = sep THEN <<acc>> \o SplitFrom(Tail(s), sep, <<>>)
    ELSE SplitFrom(Tail(s), sep, Append(acc, Head(s)))

Split(s, sep) == SplitFrom(s, sep, <<>>)

\* s.rsplit(sep, 1) for a one-character sep: one part, or the two parts
\* around the last sep
RSplit1(s, sep) ==
    IF \E i \in DOMAIN s : s[i] = sep
    THEN LET i == CHOOSE k \in DOMAIN s : s[k] = sep /\ \A j \in (k + 1)..Len(s) : s[j] # sep
         IN <<SubSeq(s, 1, i - 1), From(s, i)>>
    ELSE <<s>>

----------------------------------------------------------------------------
(* cfg_modifier.py: the runtime override engine *)

\* kind of the stored hand component -> HandType
hand_type_mapping ==
    [k \in HandKinds |->
        CASE k = "DexSGripperConfig" -> "DexGripper"
          [] k = "DexDGripperConfig" -> "DexGripper"
          [] k = "F5D6HandV1Config" -> "HandF5D6_V1"
          [] k = "F5D6HandV2Config" -> "HandF5D6_V2"]

\* a table that constructs the single gripper for a detected DexGripper
hand_type_reverse_mapping_single ==
    [t \in HandType \ {"UNKNOWN"} |->
        CASE t = "DexGripper" -> "DexSGripperConfig"
          [] t = "HandF5D6_V1" -> "F5D6HandV1Config"
          [] t = "HandF5D6_V2" -> "F5D6HandV2Config"]

\* a table that constructs the newer F5D6 hand for a detected HandF5D6_V1
hand_type_reverse_mapping_newest ==
    [t \in HandType \ {"UNKNOWN"} |->
        CASE t = "DexGripper" -> "DexDGripperConfig"
          [] t = "HandF5D6_V1" -> "F5D6HandV2Config"
          [] t = "HandF5D6_V2" -> "F5D6HandV2Config"]

\* detected HandType -> kind to construct
hand_type_reverse_mapping ==
    [t \in HandType \ {"UNKNOWN"} |->
        CASE t = "DexGripper" -> "DexDGripperConfig"
          [] t = "HandF5D6_V1" -> "F5D6HandV1Config"
          [] t = "HandF5D6_V2" -> "F5D6HandV2Config"]

ArmKey(side) == side \o "_arm"

HandKey(side) == side \o "_hand"

Warning(msg, key) == [msg |-> msg, key |-> key]

\* The engine works on m = [heap, owner, components, log, raised]: the heap,
\* the holder of the configuration, the configuration's components dict, the
\* warnings logged so far and the exception that ended the call ("none"
\* while it runs).

\* if flag: if key in config.components: config.components[key].enabled = False
DisableComponent(m, flag, key, msg) ==
    IF flag /\ key \in DOMAIN m.components
    THEN [m EXCEPT !.heap[m.components[key]].enabled = FALSE,
                   !.log = Append(@, Warning(msg, key))]
    ELSE m

\* the arm block without the test for UNKNOWN
DisablePassThrough_any_type(m, side, hand_type) ==
    IF ArmKey(side) \in DOMAIN m.components
    THEN LET arm == m.components[ArmKey(side)]
         IN IF HasPassThrough(m.heap[arm].kind)
            THEN [m EXCEPT !.heap[arm].enable_ee_pass_through = FALSE]
            ELSE m
    ELSE m

\* EE pass-through is disabled when hand type is specified
DisablePassThrough(m, side, hand_type) ==
    IF ArmKey(side) \in DOMAIN m.components
    THEN LET arm == m.components[ArmKey(side)]
         IN IF hand_type # "UNKNOWN" /\ HasPassThrough(m.heap[arm].kind)
            THEN [m EXCEPT !.heap[arm].enable_ee_pass_through = FALSE]
            ELSE m
    ELSE m

\* the constructor called without side=side
StoreNewHand_no_side(m, side, hand_type, msg) ==
    LET id == NewId(m.heap, m.owner)
    IN [m EXCEPT !.heap = Put(@, id, Construct(hand_type_reverse_mapping[hand_type], "left")),
                 !.components = Put(@, HandKey(side), id),
                 !.log = Append(@, Warning(msg, HandKey(side)))]

\* config.components[hand_key] = hand_type_reverse_mapping[hand_type](side=side)
StoreNewHand(m, side, hand_type, msg) ==
    LET id == NewId(m.heap, m.owner)
    IN [m EXCEPT !.heap = Put(@, id, Construct(hand_type_reverse_mapping[hand_type], side)),
                 !.components = Put(@, HandKey(side), id),
                 !.log = Append(@, Warning(msg, HandKey(side)))]

\* a hard disable: the entry is removed
DisableHand_pop(m, side) ==
    [m EXCEPT !.components = Del(@, HandKey(side)),
              !.log = Append(@, Warning("Disabling", HandKey(side)))]

\* config.components[hand_key].enabled = False, and the warning
DisableHand(m, side) ==
    [m EXCEPT !.heap[m.components[HandKey(side)]].enabled = FALSE,
              !.log = Append(@, Warning("Disabling", HandKey(side)))]

\* the mismatch branch without the test of enable_hand_type_override
OnMismatch_always_override(m, side, hand_type, enable_hand_type_override) ==
    StoreNewHand(m, side, hand_type, "Override")

\* desired_hand_type != hand_type: override, or warn only
OnMismatch(m, side, hand_type, enable_hand_type_override) ==
    IF enable_hand_type_override
    THEN StoreNewHand(m, side, hand_type, "Override")
    ELSE [m EXCEPT !.log = Append(@, Warning("Detected", HandKey(side)))]

\* the loop body keeping a hand whose kind the table does not have
UpdateHand_keep_unmapped(m, side, hand_type, enable_hand_type_override) ==
    LET hand_key == HandKey(side)
    IN IF hand_key \in DOMAIN m.components
       THEN LET hand == m.components[hand_key]
            IN IF hand_type = "UNKNOWN"
               THEN DisableHand(m, side)
               ELSE IF m.heap[hand].kind \notin DOMAIN hand_type_mapping
                    THEN m
                    ELSE IF hand_type_mapping[m.heap[hand].kind] # hand_type
                         THEN OnMismatch(m, side, hand_type, enable_hand_type_override)
                         ELSE m
       ELSE IF hand_type # "UNKNOWN"
            THEN StoreNewHand(m, side, hand_type, "Auto-adding")
            ELSE m

\* the loop body enabling a hand whose kind matches the detected type
UpdateHand_enable_on_match(m, side, hand_type, enable_hand_type_override) ==
    LET hand_key == HandKey(side)
    IN IF hand_key \in DOMAIN m.components
       THEN LET hand == m.components[hand_key]
            IN IF hand_type = "UNKNOWN"
               THEN DisableHand(m, side)
               ELSE IF m.heap[hand].kind \notin DOMAIN hand_type_mapping
                    THEN [m EXCEPT !.raised = "KeyError"]
                    ELSE IF hand_type_mapping[m.heap[hand].kind] # hand_type
                         THEN OnMismatch(m, side, hand_type, enable_hand_type_override)
                         ELSE [m EXCEPT !.heap[hand].enabled = TRUE]
       ELSE IF hand_type # "UNKNOWN"
            THEN StoreNewHand(m, side, hand_type, "Auto-adding")
            ELSE m

\* the hand_key branch of the loop body
UpdateHand(m, side, hand_type, enable_hand_type_override) ==
    LET hand_key == HandKey(side)
    IN IF hand_key \in DOMAIN m.components
       THEN LET hand == m.components[hand_key]
            IN IF hand_type = "UNKNOWN"
               THEN DisableHand(m, side)
               ELSE IF m.heap[hand].kind \notin DOMAIN hand_type_mapping
                    THEN [m EXCEPT !.raised = "KeyError"]
                    ELSE IF hand_type_mapping[m.heap[hand].kind] # hand_type
                         THEN OnMismatch(m, side, hand_type, enable_hand_type_override)
                         ELSE m
       ELSE IF hand_type # "UNKNOWN"
            THEN StoreNewHand(m, side, hand_type, "Auto-adding")
            ELSE m

\* the arm block moved under `if hand_key in config.components`
SideStep_arm_under_hand(m, side, a) ==
    IF m.raised # "none" \/ side \notin DOMAIN a.hand_types
    THEN m
    ELSE IF HandKey(side) \in DOMAIN m.components
         THEN UpdateHand(DisablePassThrough(m, side, a.hand_types[side]),
                         side, a.hand_types[side], a.enable_hand_type_override)
         ELSE UpdateHand(m, side, a.hand_types[side], a.enable_hand_type_override)

\* one iteration of `for side in ("left", "right")`; an exception raised by an
\* earlier iteration has ended the call
SideStep(m, side, a) ==
    IF m.raised # "none" \/ side \notin DOMAIN a.hand_types
    THEN m
    ELSE UpdateHand(DisablePassThrough(m, side, a.hand_types[side]),
                    side, a.hand_types[side], a.enable_hand_type_override)

\* `for side in hand_types` in place of `for side in ("left", "right")`
runtime_override_robot_config_every_key(m, a) ==
    LET m1 == DisableComponent(m, a.disable_estop_checking, "estop", "EStop checking is disabled")
        m2 == DisableComponent(m1, a.disable_heartbeat, "heartbeat", "Heartbeat is disabled")
    IN SideStep(SideStep(SideStep(m2, "left", a), "right", a), "center", a)

\* the heartbeat block testing disable_estop_checking
runtime_override_robot_config_one_flag(m, a) ==
    LET m1 == DisableComponent(m, a.disable_estop_checking, "estop", "EStop checking is disabled")
        m2 == DisableComponent(m1, a.disable_estop_checking, "heartbeat", "Heartbeat is disabled")
    IN SideStep(SideStep(m2, "left", a), "right", a)

runtime_override_robot_config(m, a) ==
    LET m1 == DisableComponent(m, a.disable_estop_checking, "estop", "EStop checking is disabled")
        m2 == DisableComponent(m1, a.disable_heartbeat, "heartbeat", "Heartbeat is disabled")
    IN SideStep(SideStep(m2, "left", a), "right", a)

----------------------------------------------------------------------------
(* Calls *)

\* hand_types keys: the two sides the engine reads and one key it never reads
Sides == {"left", "right"}

OtherKeys == {"center"}

\* every dict over the sides, and dicts that also have the other key
HandTypeMaps ==
    UNION {[ks -> HandType] : ks \in SUBSET Sides}
    \cup UNION {{Put(f, o, "DexGripper") : f \in [ks -> {"UNKNOWN", "DexGripper"}]} :
                    ks \in SUBSET Sides, o \in OtherKeys}

OverrideArgs ==
    [hand_types : HandTypeMaps,
     enable_hand_type_override : BOOLEAN,
     disable_estop_checking : BOOLEAN,
     disable_heartbeat : BOOLEAN]

NoArgs ==
    [hand_types |-> EmptyMap, enable_hand_type_override |-> TRUE,
     disable_estop_checking |-> FALSE, disable_heartbeat |-> FALSE]

\* repeat: the call before this one was the same call, on the same
\* configuration with the same arguments; text and result: a string argument
\* and a string result, as sequences of characters (result also holds the
\* list or dict a query returns); message: which message the exception
\* raised carries; arg: an optional argument; trace: what the call asked of
\* the registry, the name parser and the description loader, in order
Call(op, cfg) ==
    [op |-> op, cfg |-> cfg, args |-> NoArgs, variant |-> "", config_class |-> "",
     key |-> "", repeat |-> FALSE, raised |-> "none", log |-> <<>>, listed |-> <<>>,
     text |-> <<>>, result |-> <<>>, message |-> "", arg |-> [given |-> FALSE, value |-> <<>>],
     trace |-> <<>>]

----------------------------------------------------------------------------
(* The environment, the files and the facade before anything uses them *)

\* an environment variable: whether it is set, and its value
Unset == [set |-> FALSE, chars |-> <<>>]

SetTo(chars) == [set |-> TRUE, chars |-> chars]

\* self._urdf_parser = None
NoParser == 0

\* self._urdf_path = None
NoPath == "None"

\* no RobotInfo has been constructed
NoRobot ==
    [exists |-> FALSE, config |-> "", urdf_parser |-> NoParser, urdf_path |-> NoPath,
     robot_name_from_env |-> <<>>]

----------------------------------------------------------------------------
(* The engine applied to a configuration instance *)

ApplyOverride(c, a) ==
    /\ c \in DOMAIN configs
    /\ LET r == runtime_override_robot_config(
                    [heap |-> heap, owner |-> c, components |-> configs[c].components,
                     log |-> <<>>, raised |-> "none"], a)
       IN /\ configs' = [configs EXCEPT ![c].components = r.components]
          /\ heap' = Collect(r.heap, configs')
          /\ call' = [Call("override", c) EXCEPT
                          !.args = a, !.log = r.log, !.raised = r.raised,
                          !.repeat = (call.op = "override" /\ call.cfg = c /\ call.args = a)]
    /\ UNCHANGED registry
    /\ UNCHANGED infoVars

----------------------------------------------------------------------------
(* Configurations built directly: BaseRobotConfig(components={...}) *)

OtherSide(side) == IF side = "left" THEN "right" ELSE "left"

EngineKeys == <<"left_arm", "left_hand", "right_arm", "right_hand", "estop", "heartbeat", "torso">>

KeySet(seq) == {seq[i] : i \in DOMAIN seq}

\* Vega1ArmConfig(side=side), Vega1ArmConfig(side=side, enable_ee_pass_through=False),
\* BaseComponentConfig()
ArmOptions(side) ==
    {Construct("Vega1ArmConfig", side),
     [Construct("Vega1ArmConfig", side) EXCEPT !.enable_ee_pass_through = FALSE],
     Construct("BaseComponentConfig", "")}

\* K(side=side) of the four hand kinds, BaseComponentConfig(), and an object
\* with no field at its default:
\* DexSGripperConfig(enabled=False, side=<other side>, pv_mode=True)
HandOptions(side) ==
    {Construct(k, side) : k \in HandKinds}
    \cup {[Construct("DexSGripperConfig", OtherSide(side)) EXCEPT !.enabled = FALSE, !.pv_mode = TRUE]}
    \cup {Construct("BaseComponentConfig", "")}

\* K(), K(enabled=False)
SafetyOptions(kind) == {Construct(kind, ""), [Construct(kind, "") EXCEPT !.enabled = FALSE]}

Options(key) ==
    CASE key = "left_arm" -> ArmOptions("left")
      [] key = "right_arm" -> ArmOptions("right")
      [] key = "left_hand" -> HandOptions("left")
      [] key = "right_hand" -> HandOptions("right")
      [] key = "estop" -> SafetyOptions("EStopConfig")
      [] key = "heartbeat" -> SafetyOptions("HeartbeatConfig")
      [] key = "torso" -> {Construct("Vega1TorsoConfig", "")}

\* marks a key the dict does not have
Absent == Construct("absent", "")

\* one choice per key: an object of Options(key), or Absent
Choices ==
    [left_arm : Options("left_arm") \cup {Absent},
     left_hand : Options("left_hand") \cup {Absent},
     right_arm : Options("right_arm") \cup {Absent},
     right_hand : Options("right_hand") \cup {Absent},
     estop : Options("estop") \cup {Absent},
     heartbeat : Options("heartbeat") \cup {Absent},
     torso : Options("torso") \cup {Absent}]

\* estop, heartbeat and torso as every robot variant constructs them
PlainRest(r) ==
    /\ r.estop = Construct("EStopConfig", "")
    /\ r.heartbeat = Construct("HeartbeatConfig", "")
    /\ r.torso = Construct("Vega1TorsoConfig", "")

\* no arm and no hand
NoSides(r) == \A k \in {"left_arm", "left_hand", "right_arm", "right_hand"} : r[k] = Absent

\* the components dicts a caller passes, key -> the object stored under it:
\* every choice of arms and hands beside the plain estop, heartbeat and torso,
\* and every choice of estop, heartbeat and torso without arms and hands
ComponentDicts ==
    {[k \in {x \in KeySet(EngineKeys) : r[x] # Absent} |-> r[k]] :
        r \in {x \in Choices : PlainRest(x) \/ NoSides(x)}}

\* the objects of dict d get their ids in the order of EngineKeys
RECURSIVE StoreDict(_, _, _, _, _)
StoreDict(h, o, d, keys, acc) ==
    IF keys = <<>> THEN [heap |-> h, map |-> acc]
    ELSE IF Head(keys) \in DOMAIN d
         THEN LET id == NewId(h, o)
              IN StoreDict(Put(h, id, d[Head(keys)]), o, d, Tail(keys), Put(acc, Head(keys), id))
         ELSE StoreDict(h, o, d, Tail(keys), acc)

\* BaseRobotConfig(components=d, sensors={"usb_camera": CameraConfig()},
\*                 querables={"version_info": "info/versions"})
BaseRobotConfig(h, o, d) ==
    LET cs == StoreDict(h, o, d, EngineKeys, EmptyMap)
        ss == BuildDict(cs.heap, o, <<<<"usb_camera", "CameraConfig", "">>>>, EmptyMap)
    IN [heap |-> ss.heap,
        config |-> [robot_model |-> "", abbr |-> "", urdf_path |-> "",
                    components |-> cs.map, sensors |-> ss.map,
                    querables |-> [q \in {"version_info"} |-> "info/versions"]]]

----------------------------------------------------------------------------
(* configs/robots: the robot variants' configuration classes *)

Vega1pQuerables ==
    [q \in {"version_info", "status_info", "hand_info", "reboot", "clear_error",
            "soc_ntp", "chassis_led"} |->
        CASE q = "version_info" -> "info/versions"
          [] q = "status_info" -> "info/status"
          [] q = "hand_info" -> "info/hand_type"
          [] q = "reboot" -> "system/reboot"
          [] q = "clear_error" -> "system/clear_error"
          [] q = "soc_ntp" -> "time/soc"
          [] q = "chassis_led" -> "system/led"]

Vega1pSensors ==
    <<<<"head_camera", "ZedXCameraConfig", "">>, <<"chassis_imu", "ChassisIMUConfig", "">>,
      <<"head_imu", "ZedIMUConfig", "">>, <<"front_lidar_3d", "Lidar3DConfig", "">>,
      <<"ultrasonic", "UltraSonicConfig", "">>>>

WristCameras ==
    <<<<"left_wrist_camera", "ZedXOneCameraConfig", "left">>,
      <<"right_wrist_camera", "ZedXOneCameraConfig", "right">>>>

Arms == <<<<"left_arm", "Vega1ArmConfig", "left">>, <<"right_arm", "Vega1ArmConfig", "right">>>>

Hands(kind) == <<<<"left_hand", kind, "left">>, <<"right_hand", kind, "right">>>>

Vega1pBody == <<<<"torso", "Vega1TorsoConfig", "">>, <<"chassis", "Vega1ChassisConfig", "">>,
                <<"head", "Vega1HeadConfig", "">>>>

Vega1pSafety == <<<<"battery", "BatteryConfig", "">>, <<"estop", "EStopConfig", "">>,
                  <<"heartbeat", "HeartbeatConfig", "">>>>

Vega1USafety == <<<<"estop", "EStopConfig", "">>, <<"heartbeat", "HeartbeatConfig", "">>>>

Vega1UHead == <<<<"head", "Vega1HeadConfig", "">>>>

Vega1USensors == <<<<"head_camera", "ZedXCameraConfig", "">>>>

ConfigClasses ==
    {"Vega1pConfig", "Vega1pF5D6Config", "Vega1pDGripperConfig",
     "Vega1UConfig", "Vega1UF5D6Config", "Vega1UDGripperConfig"}

\* the field defaults of a configuration class: the scalars, and the dicts
\* its default_factory lambdas build, entry by entry
ClassDefaults(cls) ==
    CASE cls = "Vega1pConfig" ->
            [robot_model |-> "vega_1p", abbr |-> "vg", urdf_path |-> "vega_1p/vega_1p.urdf",
             components |-> Arms \o Vega1pBody \o Vega1pSafety,
             sensors |-> Vega1pSensors, querables |-> Vega1pQuerables]
      [] cls = "Vega1pF5D6Config" ->
            [robot_model |-> "vega_1p", abbr |-> "vg", urdf_path |-> "vega_1p/vega_1p_f5d6.urdf",
             components |-> Arms \o Vega1pBody \o Hands("F5D6HandV2Config") \o Vega1pSafety,
             sensors |-> Vega1pSensors, querables |-> Vega1pQuerables]
      [] cls = "Vega1pDGripperConfig" ->
            [robot_model |-> "vega_1p", abbr |-> "vg", urdf_path |-> "vega_1p/vega_1p_gripper.urdf",
             components |-> Arms \o Vega1pBody \o Hands("DexDGripperConfig") \o Vega1pSafety,
             sensors |-> Vega1pSensors \o WristCameras, querables |-> Vega1pQuerables]
      [] cls = "Vega1UConfig" ->
            [robot_model |-> "vega_1u", abbr |-> "vg", urdf_path |-> "vega_1u/vega_1u.urdf",
             components |-> Arms \o Vega1UHead \o Vega1USafety,
             sensors |-> Vega1USensors, querables |-> Vega1pQuerables]
      [] cls = "Vega1UF5D6Config" ->
            [robot_model |-> "vega_1u", abbr |-> "vg", urdf_path |-> "vega_1u/vega_1u_f5d6.urdf",
             components |-> Arms \o Vega1UHead \o Hands("F5D6HandV2Config") \o Vega1USafety,
             sensors |-> Vega1USensors, querables |-> Vega1pQuerables]
      [] cls = "BaseRobotConfig" ->
            [robot_model |-> "", abbr |-> "", urdf_path |-> "",
             components |-> <<>>, sensors |-> <<>>, querables |-> EmptyMap]
      [] cls = "XrayConfig" ->
            [robot_model |-> "xray_2", abbr |-> "xy", urdf_path |-> "",
             components |-> <<>>, sensors |-> <<>>, querables |-> EmptyMap]
      [] cls = "ZuluConfig" ->
            [robot_model |-> "zulu", abbr |-> "xy", urdf_path |-> "",
             components |-> <<>>, sensors |-> <<>>, querables |-> EmptyMap]
      [] cls = "Vega1UDGripperConfig" ->
            [robot_model |-> "vega_1u", abbr |-> "vg", urdf_path |-> "vega_1u/vega_1u_gripper.urdf",
             components |-> Arms \o Vega1UHead \o Hands("DexDGripperConfig") \o Vega1USafety,
             sensors |-> Vega1USensors \o WristCameras, querables |-> Vega1pQuerables]

\* subclasses of BaseRobotConfig a caller defines: two with the abbreviation
\* "xy", one of them with a robot_model without underscore
CallerClasses == {"XrayConfig", "ZuluConfig"}

\* field defaults that are dicts built once, which every instance of the
\* class then has, in place of default_factory
NewConfig_shared_defaults(h, o, cls) ==
    LET d == ClassDefaults(cls)
        same == {x \in DOMAIN configs : configs[x].urdf_path = d.urdf_path}
        cs == BuildDict(h, o, d.components, EmptyMap)
        ss == BuildDict(cs.heap, o, d.sensors, EmptyMap)
    IN IF same = {}
       THEN [heap |-> ss.heap,
             config |-> [robot_model |-> d.robot_model, abbr |-> d.abbr,
                         urdf_path |-> d.urdf_path, components |-> cs.map,
                         sensors |-> ss.map, querables |-> d.querables]]
       ELSE [heap |-> h, config |-> configs[CHOOSE x \in same : TRUE]]

\* config_class(): a new instance for holder o, every default_factory called
\* anew, with heap h extended by the objects they construct
NewConfig(h, o, cls) ==
    LET d == ClassDefaults(cls)
        cs == BuildDict(h, o, d.components, EmptyMap)
        ss == BuildDict(cs.heap, o, d.sensors, EmptyMap)
    IN [heap |-> ss.heap,
        config |-> [robot_model |-> d.robot_model, abbr |-> d.abbr,
                    urdf_path |-> d.urdf_path, components |-> cs.map,
                    sensors |-> ss.map, querables |-> d.querables]]

----------------------------------------------------------------------------
(* configs/registry.py: ConfigRegistry *)

\* the keys of _registry, in insertion order
Keys(reg) == [i \in DOMAIN reg |-> reg[i].variant]

Registered(reg) == {reg[i].variant : i \in DOMAIN reg}

\* cls._registry[variant]
Lookup(reg, variant) == reg[CHOOSE i \in DOMAIN reg : reg[i].variant = variant].config_class

\* cls._registry.setdefault(variant, config_class): the first registration stays
register_keep_first(reg, variant, config_class) ==
    IF variant \in Registered(reg)
    THEN reg
    ELSE Append(reg, [variant |-> variant, config_class |-> config_class])

\* the key deleted before it is stored again, which moves it to the end
register_move_to_end(reg, variant, config_class) ==
    Append(SelectSeq(reg, LAMBDA e : e.variant # variant),
           [variant |-> variant, config_class |-> config_class])

\* cls._registry[variant] = config_class: a key the dict has keeps its place
register(reg, variant, config_class) ==
    IF variant \in Registered(reg)
    THEN [i \in DOMAIN reg |-> IF reg[i].variant = variant
                               THEN [variant |-> variant, config_class |-> config_class]
                               ELSE reg[i]]
    ELSE Append(reg, [variant |-> variant, config_class |-> config_class])

\* the registry once the configs package is imported: each @register_variant
\* in the order the modules are loaded (robots/vega_1.py, which registers
\* before them, is not among the sources)
ImportedRegistry ==
    register(register(register(register(register(register(<<>>,
        "vega_1p", "Vega1pConfig"),
        "vega_1p_f5d6", "Vega1pF5D6Config"),
        "vega_1p_gripper", "Vega1pDGripperConfig"),
        "vega_1u", "Vega1UConfig"),
        "vega_1u_f5d6", "Vega1UF5D6Config"),
        "vega_1u_gripper", "Vega1UDGripperConfig")

\* the names in the message of the ValueError, read when the module was loaded
get_error_names_at_import(reg) == Keys(ImportedRegistry)

\* list(cls._registry.keys()) in the message of the ValueError
get_error_names(reg) == Keys(reg)

\* list(cls._registry.keys()): a new list each time
list_variants(reg) == Keys(reg)

\* names and classes the callers pass
RegisterNames == {"vega_1u", "vega_x"}

RegisterClasses == {"Vega1UConfig", "Vega1pF5D6Config"}

GetNames == {"vega_1p_gripper", "vega_1u", "vega_x", "nonexistent_robot"}

\* ConfigRegistry.register(variant, config_class)
Register(variant, cls) ==
    /\ registry' = register(registry, variant, cls)
    /\ call' = [Call("register", "") EXCEPT !.variant = variant, !.config_class = cls]
    /\ UNCHANGED <<configs, heap>>
    /\ UNCHANGED infoVars

\* holder = ConfigRegistry.get(variant), for a holder that holds nothing
Get(holder, variant) ==
    /\ holder \notin DOMAIN configs
    /\ IF variant \notin Registered(registry)
       THEN /\ call' = [Call("get", holder) EXCEPT !.variant = variant, !.raised = "ValueError",
                                                     !.listed = get_error_names(registry)]
            /\ UNCHANGED <<registry, configs, heap>>
       ELSE LET cls == Lookup(registry, variant)
                new == NewConfig(heap, holder, cls)
            IN /\ configs' = Put(configs, holder, new.config)
               /\ heap' = Collect(new.heap, configs')
               /\ call' = [Call("get", holder) EXCEPT !.variant = variant, !.config_class = cls]
               /\ UNCHANGED registry
    /\ UNCHANGED infoVars

\* names = ConfigRegistry.list_variants()
ListVariants ==
    /\ call' = [Call("list_variants", "") EXCEPT !.listed = list_variants(registry)]
    /\ UNCHANGED <<registry, configs, heap>>
    /\ UNCHANGED infoVars

\* names.pop(0) on the list the caller got from list_variants
PopListed ==
    /\ call.op = "list_variants"
    /\ call.listed # <<>>
    /\ call' = [call EXCEPT !.op = "list_pop", !.listed = Tail(@)]
    /\ UNCHANGED <<registry, configs, heap>>
    /\ UNCHANGED infoVars

\* del holder
Drop(holder) ==
    /\ holder \in DOMAIN configs
    /\ configs' = Del(configs, holder)
    /\ heap' = Collect(heap, configs')
    /\ call' = Call("del", holder)
    /\ UNCHANGED registry
    /\ UNCHANGED infoVars

----------------------------------------------------------------------------
(* constants.py, _helpers.py, robot_info.py: from a robot name to a variant *)

\* the characters of the robot_model strings of the configuration classes
Chars(str) ==
    CASE str = "vega_1p" -> <<"v", "e", "g", "a", "_", "1", "p">>
      [] str = "vega_1u" -> <<"v", "e", "g", "a", "_", "1", "u">>
      [] str = "xray_2" -> <<"x", "r", "a", "y", "_", "2">>
      [] str = "zulu" -> <<"z", "u", "l", "u">>
      [] OTHER -> <<>>

\* the loop of build_robot_type_abbreviation_mapping over the variants
RECURSIVE AbbreviationLoop(_, _, _)
AbbreviationLoop(reg, variants, mapping) ==
    IF variants = <<>> THEN mapping
    ELSE LET config == ClassDefaults(Lookup(reg, Head(variants)))
             parts == RSplit1(Chars(config.robot_model), "_")
             robot_type == IF Len(parts) > 1 THEN parts[1] ELSE Chars(config.robot_model)
         IN AbbreviationLoop(reg, Tail(variants),
                IF config.abbr \notin DOMAIN mapping
                THEN Put(mapping, config.abbr, robot_type)
                ELSE mapping)

build_robot_type_abbreviation_mapping(reg) ==
    AbbreviationLoop(reg, list_variants(reg), EmptyMap)

\* built once, when _helpers is loaded
ROBOT_TYPE_ABB_MAPPING == build_robot_type_abbreviation_mapping(ImportedRegistry)

\* the function with every call building the table anew
lru_cache_build_uncached(cache, reg) ==
    [filled |-> TRUE, mapping |-> build_robot_type_abbreviation_mapping(reg)]

\* @lru_cache(maxsize=None) around build_robot_type_abbreviation_mapping: the
\* cache afterwards, whose mapping is what the call returns
lru_cache_build(cache, reg) ==
    IF cache.filled THEN cache
    ELSE [filled |-> TRUE, mapping |-> build_robot_type_abbreviation_mapping(reg)]

\* the caches of the modules once the package is imported: the table was
\* built by the call at the end of _helpers, no parser is cached
ImportedCaches ==
    [abbreviations |-> lru_cache_build([filled |-> FALSE, mapping |-> EmptyMap], ImportedRegistry),
     parsers |-> <<>>]

----------------------------------------------------------------------------
(* The process before anything uses the environment, the files or a facade *)

InfoIdle ==
    /\ env = [ROBOT_CONFIG |-> Unset, ROBOT_NAME |-> Unset]
    /\ fs = EmptyMap
    /\ robot = NoRobot
    /\ parsers = EmptyMap
    /\ caches = ImportedCaches

----------------------------------------------------------------------------
(* The engine on configurations built directly *)

InitEngine ==
    /\ registry = <<>>
    /\ \E d \in ComponentDicts :
          LET b == BaseRobotConfig(EmptyMap, "config1", d)
          IN /\ configs = [s \in {"config1"} |-> b.config]
             /\ heap = b.heap
    /\ \E a \in OverrideArgs : call = [Call("construct", "config1") EXCEPT !.args = a]
    /\ InfoIdle

NextEngine == ApplyOverride("config1", call.args)

SpecEngine == InitEngine /\ [][NextEngine]_vars

----------------------------------------------------------------------------
(* The engine applied again and again, each time with other arguments *)

\* the components dicts of the configurations: both arms, the left hand of
\* any kind or none, the right hand a single gripper, a generic component or
\* none, beside the plain estop, heartbeat and torso
SequenceDicts ==
    {d \in ComponentDicts :
        /\ {"left_arm", "right_arm", "estop"} \subseteq DOMAIN d
        /\ d["left_arm"] = Construct("Vega1ArmConfig", "left")
        /\ d["right_arm"] = Construct("Vega1ArmConfig", "right")
        /\ "left_hand" \in DOMAIN d => d["left_hand"].enabled
        /\ "right_hand" \in DOMAIN d =>
              d["right_hand"] \in {Construct("DexSGripperConfig", "right"),
                                   Construct("BaseComponentConfig", "")}}

\* the arguments of the applications: any detected type for the left side,
\* none or a gripper for the right, override allowed or not, and estop and
\* heartbeat left alone or both disabled
SequenceArgs ==
    {a \in OverrideArgs :
        /\ DOMAIN a.hand_types = {"left", "right"}
        /\ a.hand_types["right"] \in {"UNKNOWN", "DexGripper"}
        /\ a.disable_estop_checking = a.disable_heartbeat}

InitSequence ==
    /\ registry = ImportedRegistry
    /\ \E d \in SequenceDicts :
          LET b == BaseRobotConfig(EmptyMap, "config1", d)
          IN /\ configs = [s \in {"config1"} |-> b.config]
             /\ heap = b.heap
    /\ call = Call("construct", "config1")
    /\ InfoIdle

NextSequence == \E a \in SequenceArgs : ApplyOverride("config1", a)

SpecSequence == InitSequence /\ [][NextSequence]_vars

\* [a-zA-Z0-9]
IsAlnum(c) == c \in Lower \cup Upper \cup Digits

\* \d+ over the whole of v
AllDigits(v) == v # <<>> /\ \A i \in DOMAIN v : v[i] \in Digits

\* (?:\d+[a-z]?|rc\d+) over the whole of v
VersionMatch(v) ==
    \/ AllDigits(v)
    \/ Len(v) >= 2 /\ AllDigits(SubSeq(v, 1, Len(v) - 1)) /\ v[Len(v)] \in Lower
    \/ StartsWith(v, <<"r", "c">>) /\ AllDigits(From(v, 2))

\* dm/[a-zA-Z0-9]{12}-(?:\d+[a-z]?|rc\d+) over the whole of s
BodyMatch(s) ==
    /\ Len(s) >= 17
    /\ StartsWith(s, <<"d", "m", "/">>)
    /\ \A i \in 4..15 : IsAlnum(s[i])
    /\ s[16] = "-"
    /\ VersionMatch(From(s, 16))

\* ROBOT_NAME_PATTERN.match(s): ^ at the start, $ at the end of the string
\* or before a newline that ends it
ROBOT_NAME_PATTERN_match(s) ==
    \/ BodyMatch(s)
    \/ s # <<>> /\ s[Len(s)] = "\n" /\ BodyMatch(SubSeq(s, 1, Len(s) - 1))

\* what a call gives back: the exception raised ("none" when it returns), the
\* message it carries and the value returned
Returns(value) == [raised |-> "none", message |-> "", result |-> value]

Raises(exc, message) == [raised |-> exc, message |-> message, result |-> <<>>]

\* RobotInfo._derive_variant_from_robot_name(robot_name)
derive_variant_from_robot_name(robot_name) ==
    IF ~ROBOT_NAME_PATTERN_match(robot_name)
    THEN Raises("ValueError", "Invalid robot name format")
    ELSE LET parts == Split(Replace(robot_name, <<"/">>, <<"-">>), "-")
             robot_abbr == SubSeq(parts[2], 1, 2)
             version_part == parts[Len(parts)]
         IN IF Join(robot_abbr) \notin DOMAIN ROBOT_TYPE_ABB_MAPPING
            THEN Raises("ValueError", "Unknown robot abbreviation")
            ELSE Returns(ROBOT_TYPE_ABB_MAPPING[Join(robot_abbr)] \o <<"_">> \o version_part)

\* robot names: the documented ones, names with another abbreviation or
\* version, and every string one insertion, replacement or removal of a
\* character away from them
BaseNames ==
    {<<"d", "m", "/", "v", "g", "a", "b", "c", "d", "1", "2", "3", "4", "5", "6", "-", "1">>,
     <<"d", "m", "/", "v", "g", "0", "1", "2", "3", "4", "5", "6", "7", "8", "9", "-", "1", "p">>,
     <<"d", "m", "/", "v", "g", "0", "1", "2", "3", "4", "5", "6", "7", "8", "9", "-", "1", "u">>,
     <<"d", "m", "/", "x", "y", "0", "1", "2", "3", "4", "5", "6", "7", "8", "9", "-", "2">>,
     <<"d", "m", "/", "v", "g", "0", "1", "2", "3", "4", "5", "6", "7", "8", "9", "-", "r", "c", "2">>,
     <<"d", "m", "/", "V", "G", "0", "1", "2", "3", "4", "5", "6", "7", "8", "9", "-", "1", "0">>}

EditChars == {"d", "/", "-", "1", "p", "Z", "_", " ", "r", "\n"}

Edits(s) ==
    {s}
    \cup {SubSeq(s, 1, i) \o <<c>> \o From(s, i) : i \in 0..Len(s), c \in EditChars}
    \cup {[s EXCEPT ![i] = c] : i \in DOMAIN s, c \in EditChars}
    \cup {SubSeq(s, 1, i - 1) \o From(s, i) : i \in DOMAIN s}

RobotNames == UNION {Edits(s) : s \in BaseNames} \cup {<<>>, <<"v", "e", "g", "a", "_", "1">>}

\* RobotInfo._derive_variant_from_robot_name(call.text)
DeriveVariant ==
    /\ call.op = "robot_name"
    /\ LET r == derive_variant_from_robot_name(call.text)
       IN call' = [Call("derive", "") EXCEPT !.text = call.text, !.result = r.result,
                                              !.raised = r.raised, !.message = r.message]
    /\ UNCHANGED <<registry, configs, heap>>
    /\ UNCHANGED infoVars

InitName ==
    /\ registry = ImportedRegistry
    /\ configs = EmptyMap
    /\ heap = EmptyMap
    /\ \E s \in RobotNames : call = [Call("robot_name", "") EXCEPT !.text = s]
    /\ InfoIdle

NextName == DeriveVariant

SpecName == InitName /\ [][NextName]_vars

----------------------------------------------------------------------------
(* The abbreviation table while variants are registered *)

\* build_robot_type_abbreviation_mapping()
BuildMapping ==
    /\ caches' = [caches EXCEPT !.abbreviations = lru_cache_build(caches.abbreviations, registry)]
    /\ call' = [Call("build_robot_type_abbreviation_mapping", "") EXCEPT
                    !.result = caches'.abbreviations.mapping]
    /\ UNCHANGED <<registry, configs, heap, env, fs, robot, parsers>>

\* RobotInfo._derive_variant_from_robot_name(robot_name)
DeriveName(robot_name) ==
    /\ \E r \in {derive_variant_from_robot_name(robot_name)} :
          call' = [Call("derive", "") EXCEPT !.text = robot_name, !.result = r.result,
                                             !.raised = r.raised, !.message = r.message]
    /\ UNCHANGED <<registry, configs, heap>>
    /\ UNCHANGED infoVars

\* serial names with the abbreviation of the built-in variants and with
\* that of the caller's classes
TableNames ==
    {<<"d", "m", "/", "v", "g", "0", "1", "2", "3", "4", "5", "6", "7", "8", "9", "-", "1", "p">>,
     <<"d", "m", "/", "x", "y", "0", "1", "2", "3", "4", "5", "6", "7", "8", "9", "-", "2">>}

\* the names the caller registers its classes under
CallerVariants == {"xray_2", "a_custom", "vega_1p"}

InitTable ==
    /\ registry = ImportedRegistry
    /\ configs = EmptyMap
    /\ heap = EmptyMap
    /\ call = Call("import", "")
    /\ InfoIdle

NextTable ==
    \/ \E v \in CallerVariants, c \in CallerClasses : Register(v, c)
    \/ BuildMapping
    \/ \E n \in TableNames : DeriveName(n)

SpecTable == InitTable /\ [][NextTable]_vars

----------------------------------------------------------------------------
(* urdf_utils.py: URDFParser *)

\* A description file holds the children of its root element, in document
\* order.  A child is [tag, name, type, limit]: name and type are the
\* attributes, or Missing; limit says whether the element has a <limit>
\* child: "none", "ok" (its numbers parse) or "bad" (float() rejects one).
Missing == "(missing)"

Element(tag, name, type, limit) == [tag |-> tag, name |-> name, type |-> type, limit |-> limit]

\* a dict in insertion order: a sequence of [key, value] entries
DictKeys(d) == [i \in DOMAIN d |-> d[i].key]

HasKey(d, k) == \E i \in DOMAIN d : d[i].key = k

DictGet(d, k) == d[CHOOSE i \in DOMAIN d : d[i].key = k].value

\* d[k] = v
DictSet(d, k, v) ==
    IF HasKey(d, k)
    THEN [i \in DOMAIN d |-> IF d[i].key = k THEN [key |-> k, value |-> v] ELSE d[i]]
    ELSE Append(d, [key |-> k, value |-> v])

\* self._joints_cache = None
NoCache == [filled |-> FALSE, joints |-> <<>>]

\* the positions of the root's children with the tag, in document order
RECURSIVE FindAll(_, _, _)
FindAll(root, tag, i) ==
    IF i > Len(root) THEN <<>>
    ELSE IF root[i].tag = tag THEN <<i>> \o FindAll(root, tag, i + 1)
    ELSE FindAll(root, tag, i + 1)

\* _parse_joint: the JointInfo of the element at position i; its limit is
\* None or the JointLimit built from that element
parse_joint(root, i) ==
    [name |-> IF root[i].name = Missing THEN "" ELSE root[i].name,
     joint_type |-> IF root[i].type = Missing THEN "unknown" ELSE root[i].type,
     limit |-> IF root[i].limit = "none" THEN [none |-> TRUE, of |-> 0]
               ELSE [none |-> FALSE, of |-> i]]

\* the loop of get_all_joints over root.findall("joint")
RECURSIVE JointsLoop(_, _, _)
JointsLoop(root, found, joints) ==
    IF found = <<>> THEN Returns(joints)
    ELSE IF root[Head(found)].limit = "bad"
         THEN Raises("ValueError", "could not convert string to float")
         ELSE LET joint_info == parse_joint(root, Head(found))
              IN JointsLoop(root, Tail(found), DictSet(joints, joint_info.name, joint_info))

\* URDFParser.get_all_joints: the parser afterwards and what the call gives
get_all_joints(parser) ==
    IF parser.joints_cache.filled
    THEN [parser |-> parser, out |-> Returns(parser.joints_cache.joints)]
    ELSE LET r == JointsLoop(parser.root, FindAll(parser.root, "joint", 1), <<>>)
         IN IF r.raised = "none"
            THEN [parser |-> [parser EXCEPT !.joints_cache = [filled |-> TRUE, joints |-> r.result]],
                  out |-> r]
            ELSE [parser |-> parser, out |-> r]

_MOVABLE_JOINT_TYPES == {"revolute", "continuous", "prismatic"}

\* an optional argument: None, or a value
None == [given |-> FALSE, value |-> <<>>]

Some(v) == [given |-> TRUE, value |-> v]

\* [name for name, info in joints.items() if info.joint_type in types]
NamesOfTypes(joints, types) ==
    DictKeys(SelectSeq(joints, LAMBDA e : e.value.joint_type \in types))

\* URDFParser.get_joint_names(joint_type)
get_joint_names(parser, joint_type) ==
    LET g == get_all_joints(parser)
    IN IF g.out.raised # "none" THEN g
       ELSE IF ~joint_type.given
            THEN [parser |-> g.parser, out |-> Returns(DictKeys(g.out.result))]
            ELSE [parser |-> g.parser,
                  out |-> Returns(NamesOfTypes(g.out.result, {joint_type.value}))]

\* every joint that is not fixed counted as movable
get_movable_joint_names_not_fixed(parser) ==
    LET g == get_all_joints(parser)
    IN IF g.out.raised # "none" THEN g
       ELSE [parser |-> g.parser,
             out |-> Returns(DictKeys(SelectSeq(g.out.result,
                                                LAMBDA e : e.value.joint_type # "fixed")))]

\* URDFParser.get_movable_joint_names()
get_movable_joint_names(parser) ==
    LET g == get_all_joints(parser)
    IN IF g.out.raised # "none" THEN g
       ELSE [parser |-> g.parser,
             out |-> Returns(NamesOfTypes(g.out.result, _MOVABLE_JOINT_TYPES))]

\* the loop of get_joint_limits with the test of the limit left out
RECURSIVE LimitsLoop_every_joint(_, _, _)
LimitsLoop_every_joint(joints, names, limits) ==
    IF names = <<>> THEN limits
    ELSE LimitsLoop_every_joint(joints, Tail(names),
            IF HasKey(joints, Head(names))
            THEN DictSet(limits, Head(names), DictGet(joints, Head(names)).limit)
            ELSE limits)

\* the loop of get_joint_limits over joint_names
RECURSIVE LimitsLoop(_, _, _)
LimitsLoop(joints, names, limits) ==
    IF names = <<>> THEN limits
    ELSE LimitsLoop(joints, Tail(names),
            IF HasKey(joints, Head(names)) /\ ~DictGet(joints, Head(names)).limit.none
            THEN DictSet(limits, Head(names), DictGet(joints, Head(names)).limit)
            ELSE limits)

\* URDFParser.get_joint_limits(joint_names)
get_joint_limits(parser, joint_names) ==
    LET g == get_all_joints(parser)
    IN IF g.out.raised # "none" THEN g
       ELSE [parser |-> g.parser,
             out |-> Returns(LimitsLoop(g.out.result,
                                        IF joint_names.given THEN joint_names.value
                                        ELSE DictKeys(g.out.result),
                                        <<>>))]

\* URDFParser.get_link_names()
get_link_names(parser) ==
    LET links == FindAll(parser.root, "link", 1)
    IN [parser |-> parser,
        out |-> Returns([i \in DOMAIN links |->
                            IF parser.root[links[i]].name = Missing THEN ""
                            ELSE parser.root[links[i]].name])]

\* what a path holds: the root's children of a well-formed file, or text
\* that is no well-formed XML
File(root) == [wellformed |-> TRUE, root |-> root]

Malformed == [wellformed |-> FALSE, root |-> <<>>]

\* URDFParser(urdf_path) over the files: the new parser, or the exception
URDFParser(files, urdf_path) ==
    IF urdf_path \notin DOMAIN files
    THEN Raises("FileNotFoundError", "URDF file not found")
    ELSE IF ~files[urdf_path].wellformed
         THEN Raises("ParseError", "not well-formed")
         ELSE Returns([urdf_path |-> urdf_path, root |-> files[urdf_path].root,
                       joints_cache |-> NoCache])

\* the id of the next parser object: the smallest one no parser has
NewParserId(ps) == CHOOSE i \in 1..(Cardinality(DOMAIN ps) + 1) : i \notin DOMAIN ps

----------------------------------------------------------------------------
(* A parser over one description file *)

\* the children a description is made of: joints of every kind with and
\* without a limit, two joints with the name of another, a joint without a
\* name, one without a type, one whose limit does not parse, and a link
Elements ==
    {Element("joint", "j1", "revolute", "ok"),
     Element("joint", "j1", "fixed", "none"),
     Element("joint", "j1", "prismatic", "none"),
     Element("joint", "j2", "continuous", "ok"),
     Element("joint", "j2", "prismatic", "none"),
     Element("joint", "j2", "fixed", "ok"),
     Element("joint", "j3", "floating", "ok"),
     Element("joint", "j3", Missing, "ok"),
     Element("joint", Missing, "revolute", "ok"),
     Element("joint", "j3", "revolute", "bad"),
     Element("link", "base_link", Missing, "none")}

\* a place of the document that no element fills
Nothing == Element("nothing", Missing, Missing, "none")

\* the descriptions: up to three of the elements, in any order
Documents ==
    {SelectSeq(<<a, b, c>>, LAMBDA e : e # Nothing) :
        a \in Elements \cup {Nothing}, b \in Elements \cup {Nothing}, c \in Elements \cup {Nothing}}

UrdfPath == "robot.urdf"

\* the joint_type arguments and the joint_names arguments of the queries
JointTypeArgs ==
    {None} \cup {Some(t) : t \in {"revolute", "continuous", "prismatic", "fixed", "floating", "unknown"}}

JointNameArgs ==
    {None, Some(<<>>), Some(<<"j1">>), Some(<<"j2", "j1">>), Some(<<"j1", "j9", "j2", "j1">>),
     Some(<<"">>), Some(<<"j3", "j2">>)}

\* the parser the caller holds
TheParser == 1

\* parser = URDFParser(UrdfPath)
NewParser ==
    /\ parsers = EmptyMap
    /\ LET r == URDFParser(fs, UrdfPath)
       IN /\ parsers' = IF r.raised = "none" THEN Put(parsers, NewParserId(parsers), r.result)
                         ELSE parsers
          /\ call' = [Call("URDFParser", "") EXCEPT !.raised = r.raised, !.message = r.message]
    /\ UNCHANGED <<registry, configs, heap, env, fs, robot, caches>>

\* the parser after a query, and the call the query was
Queried(op, arg, r) ==
    /\ parsers' = [parsers EXCEPT ![TheParser] = r.parser]
    /\ call' = [Call(op, "") EXCEPT !.arg = arg, !.raised = r.out.raised,
                                     !.message = r.out.message, !.result = r.out.result]
    /\ UNCHANGED <<registry, configs, heap, env, fs, robot, caches>>

\* parser.get_all_joints()
ParserAllJoints ==
    /\ TheParser \in DOMAIN parsers
    /\ Queried("get_all_joints", None, get_all_joints(parsers[TheParser]))

\* parser.get_joint_names(joint_type)
ParserJointNames(joint_type) ==
    /\ TheParser \in DOMAIN parsers
    /\ Queried("get_joint_names", joint_type, get_joint_names(parsers[TheParser], joint_type))

\* parser.get_movable_joint_names()
ParserMovableJointNames ==
    /\ TheParser \in DOMAIN parsers
    /\ Queried("get_movable_joint_names", None, get_movable_joint_names(parsers[TheParser]))

\* parser.get_joint_limits(joint_names)
ParserJointLimits(joint_names) ==
    /\ TheParser \in DOMAIN parsers
    /\ Queried("get_joint_limits", joint_names, get_joint_limits(parsers[TheParser], joint_names))

\* parser.get_link_names()
ParserLinkNames ==
    /\ TheParser \in DOMAIN parsers
    /\ Queried("get_link_names", None, get_link_names(parsers[TheParser]))

InitUrdf ==
    /\ registry = ImportedRegistry
    /\ configs = EmptyMap
    /\ heap = EmptyMap
    /\ call = Call("import", "")
    /\ env = [ROBOT_CONFIG |-> Unset, ROBOT_NAME |-> Unset]
    /\ \E f \in {File(d) : d \in Documents} \cup {Malformed} : fs = Put(EmptyMap, UrdfPath, f)
    /\ robot = NoRobot
    /\ parsers = EmptyMap
    /\ caches = ImportedCaches

NextUrdf ==
    \/ NewParser
    \/ ParserAllJoints
    \/ \E t \in JointTypeArgs : ParserJointNames(t)
    \/ ParserMovableJointNames
    \/ \E n \in JointNameArgs : ParserJointLimits(n)
    \/ ParserLinkNames

SpecUrdf == InitUrdf /\ [][NextUrdf]_vars

----------------------------------------------------------------------------
(* urdf_utils.py: the cached parsers and the convenience functions *)

\* URDFParser.get_joint_info(joint_name): joints.get(joint_name)
get_joint_info(parser, joint_name) ==
    LET g == get_all_joints(parser)
    IN IF g.out.raised # "none" THEN g
       ELSE [parser |-> g.parser,
             out |-> Returns(IF HasKey(g.out.result, joint_name)
                             THEN Some(DictGet(g.out.result, joint_name))
                             ELSE None)]

\* @functools.lru_cache(maxsize=4)
maxsize == 4

\* the position of the key in the cache: a sequence of [key, value] entries,
\* the least recently used one first
PositionOf(cache, key) == CHOOSE i \in DOMAIN cache : cache[i].key = key

\* a hit: the entry becomes the most recently used one
lru_cache_hit(cache, key) ==
    SelectSeq(cache, LAMBDA e : e.key # key) \o <<cache[PositionOf(cache, key)]>>

\* the result of a miss stored by a cache that takes any number of entries
lru_cache_store_unbounded(cache, key, value) ==
    Append(cache, [key |-> key, value |-> value])

\* the result of a miss stored: a full cache gives up its oldest entry
lru_cache_store(cache, key, value) ==
    Append(IF Len(cache) >= maxsize THEN Tail(cache) ELSE cache, [key |-> key, value |-> value])

\* the path strings in the order the objects made for them are laid out
PathOrder == <<"a.urdf", "./a.urdf", "b.urdf", "c.urdf", "d.urdf">>

\* the id of the parser a miss constructs: one that no live parser has, the
\* first such counting from the place of the path string
NewCachedId(ps, urdf_path_str) ==
    LET n == Len(PathOrder)
        first == CHOOSE i \in 1..n : PathOrder[i] = urdf_path_str
        free == {i \in 1..(n + Cardinality(DOMAIN ps)) : i \notin DOMAIN ps}
        After(i) == (i - first) % (n + Cardinality(DOMAIN ps))
    IN CHOOSE i \in free : \A j \in free : After(i) <= After(j)

\* the cached function remembering the parsers and the paths it failed on
_get_cached_parser_remembering_failures(cache, files, ps, urdf_path_str) ==
    IF HasKey(cache, urdf_path_str)
    THEN IF DictGet(cache, urdf_path_str) \in DOMAIN ps
         THEN [cache |-> lru_cache_hit(cache, urdf_path_str), parsers |-> ps,
               out |-> Returns(DictGet(cache, urdf_path_str))]
         ELSE [cache |-> lru_cache_hit(cache, urdf_path_str), parsers |-> ps,
               out |-> Raises("FileNotFoundError", "URDF file not found")]
    ELSE LET p == URDFParser(files, urdf_path_str)
         IN IF p.raised # "none"
            THEN [cache |-> lru_cache_store(cache, urdf_path_str, NoParser), parsers |-> ps,
                  out |-> Raises(p.raised, p.message)]
            ELSE [cache |-> lru_cache_store(cache, urdf_path_str, NewCachedId(ps, urdf_path_str)),
                  parsers |-> Put(ps, NewCachedId(ps, urdf_path_str), p.result),
                  out |-> Returns(NewCachedId(ps, urdf_path_str))]

\* _get_cached_parser(urdf_path_str): the cache and the parsers afterwards,
\* and the parser returned or the exception of URDFParser(urdf_path_str)
_get_cached_parser(cache, files, ps, urdf_path_str) ==
    IF HasKey(cache, urdf_path_str)
    THEN [cache |-> lru_cache_hit(cache, urdf_path_str), parsers |-> ps,
          out |-> Returns(DictGet(cache, urdf_path_str))]
    ELSE LET p == URDFParser(files, urdf_path_str)
         IN IF p.raised # "none"
            THEN [cache |-> cache, parsers |-> ps, out |-> Raises(p.raised, p.message)]
            ELSE [cache |-> lru_cache_store(cache, urdf_path_str, NewCachedId(ps, urdf_path_str)),
                  parsers |-> Put(ps, NewCachedId(ps, urdf_path_str), p.result),
                  out |-> Returns(NewCachedId(ps, urdf_path_str))]

\* the parsers the cache or the facade still refers to
CachedParsers(ps, cache, r) ==
    [i \in DOMAIN ps \cap ({r.urdf_parser} \cup {cache[j].value : j \in DOMAIN cache}) |-> ps[i]]

\* the convenience functions
Conveniences ==
    {"parse_urdf", "get_joint_names", "get_movable_joint_names", "get_joint_limits",
     "get_joint_info", "get_link_names"}

\* what the convenience function does with the parser it got
Convenient(parser, id, op, arg) ==
    CASE op = "parse_urdf" -> [parser |-> parser, out |-> Returns(id)]
      [] op = "get_joint_names" -> get_joint_names(parser, arg)
      [] op = "get_movable_joint_names" -> get_movable_joint_names(parser)
      [] op = "get_joint_limits" -> get_joint_limits(parser, arg)
      [] op = "get_joint_info" -> get_joint_info(parser, arg.value)
      [] op = "get_link_names" -> get_link_names(parser)

----------------------------------------------------------------------------
(* Convenience functions over files that change *)

\* the path strings the caller passes: two spellings of one file among them
CurDir == [p \in {"./a.urdf"} |-> "a.urdf"]

PathStrings == {PathOrder[i] : i \in DOMAIN PathOrder}

\* the file a path string names
Opened(urdf_path) == IF urdf_path \in DOMAIN CurDir THEN CurDir[urdf_path] ELSE urdf_path

\* the files as the path strings reach them
Reached(files) ==
    [p \in {q \in PathStrings : Opened(q) \in DOMAIN files} |-> files[Opened(p)]]

\* the descriptions written to the files
FirstDocument ==
    <<Element("link", "base_link", Missing, "none"), Element("joint", "j1", "revolute", "ok")>>

SecondDocument == <<Element("joint", "j2", "prismatic", "ok")>>

\* the arguments convenience function op takes besides the path
ConvenienceArgs(op) ==
    CASE op = "get_joint_names" -> {Some("revolute")}
      [] op = "get_joint_limits" -> {None}
      [] op = "get_joint_info" -> {Some("j1")}
      [] OTHER -> {None}

\* op(urdf_path, arg)
Convenience(op, urdf_path, arg) ==
    /\ \E g \in {_get_cached_parser(caches.parsers, Reached(fs), parsers, urdf_path)} :
          /\ caches' = [caches EXCEPT !.parsers = g.cache]
          /\ IF g.out.raised # "none"
             THEN /\ parsers' = CachedParsers(g.parsers, g.cache, robot)
                  /\ call' = [Call(op, "") EXCEPT !.key = urdf_path, !.arg = arg,
                                                   !.raised = g.out.raised,
                                                   !.message = g.out.message]
             ELSE \E r \in {Convenient(g.parsers[g.out.result], g.out.result, op, arg)} :
                     /\ parsers' = CachedParsers([g.parsers EXCEPT ![g.out.result] = r.parser],
                                                 g.cache, robot)
                     /\ call' = [Call(op, "") EXCEPT !.key = urdf_path, !.arg = arg,
                                                      !.raised = r.out.raised,
                                                      !.message = r.out.message,
                                                      !.result = r.out.result]
    /\ UNCHANGED <<registry, configs, heap, env, fs, robot>>

\* f.write(...) on the file
WriteFile(path, f) ==
    /\ fs' = Put(fs, path, f)
    /\ call' = [Call("write", "") EXCEPT !.key = path]
    /\ UNCHANGED <<registry, configs, heap, env, robot, parsers, caches>>

\* temp_path.unlink()
Unlink(path) ==
    /\ path \in DOMAIN fs
    /\ fs' = Del(fs, path)
    /\ call' = [Call("unlink", "") EXCEPT !.key = path]
    /\ UNCHANGED <<registry, configs, heap, env, robot, parsers, caches>>

InitCache ==
    /\ registry = ImportedRegistry
    /\ configs = EmptyMap
    /\ heap = EmptyMap
    /\ call = Call("import", "")
    /\ env = [ROBOT_CONFIG |-> Unset, ROBOT_NAME |-> Unset]
    /\ fs = [p \in {"b.urdf", "c.urdf", "d.urdf"} |-> File(FirstDocument)]
    /\ robot = NoRobot
    /\ parsers = EmptyMap
    /\ caches = ImportedCaches

\* the functions called on a path string: all of them on the spellings of
\* the file that changes, parse_urdf on the others
ConveniencesOn(p) == IF Opened(p) = "a.urdf" THEN Conveniences ELSE {"parse_urdf"}

NextCache ==
    \/ \E p \in PathStrings : \E op \in ConveniencesOn(p) : \E a \in ConvenienceArgs(op) :
          Convenience(op, p, a)
    \/ \E f \in {Malformed, File(FirstDocument), File(SecondDocument)} : WriteFile("a.urdf", f)
    \/ Unlink("a.urdf")

SpecCache == InitCache /\ [][NextCache]_vars

----------------------------------------------------------------------------
(* robot_info.py: RobotInfo *)

\* an entry of a call's trace
Did(what, arg) == [what |-> what, arg |-> arg]

\* the resolver asking ROBOT_NAME before ROBOT_CONFIG
resolve_variant_from_env_name_first(e, robot_name_from_env) ==
    IF robot_name_from_env # <<>>
    THEN [out |-> derive_variant_from_robot_name(robot_name_from_env),
          trace |-> <<Did("derive", Join(robot_name_from_env))>>]
    ELSE IF e.ROBOT_CONFIG.set /\ e.ROBOT_CONFIG.chars # <<>>
         THEN [out |-> Returns(Replace(e.ROBOT_CONFIG.chars, <<".", "p", "y">>, <<>>)),
               trace |-> <<>>]
         ELSE [out |-> Raises("ValueError", "Variant not specified"), trace |-> <<>>]

\* RobotInfo._resolve_variant_from_env: ROBOT_CONFIG when it is set and not
\* empty, else the name __init__ read from ROBOT_NAME when it is not empty
resolve_variant_from_env(e, robot_name_from_env) ==
    IF e.ROBOT_CONFIG.set /\ e.ROBOT_CONFIG.chars # <<>>
    THEN [out |-> Returns(Replace(e.ROBOT_CONFIG.chars, <<".", "p", "y">>, <<>>)),
          trace |-> <<>>]
    ELSE IF robot_name_from_env # <<>>
         THEN [out |-> derive_variant_from_robot_name(robot_name_from_env),
               trace |-> <<Did("derive", Join(robot_name_from_env))>>]
         ELSE [out |-> Raises("ValueError", "Variant not specified"), trace |-> <<>>]

\* has_urdf tested on the recorded path
has_urdf_by_path(r) == r.urdf_path # NoPath

\* RobotInfo.has_urdf
has_urdf(r) == r.urdf_parser # NoParser

\* self._urdf_parser = p, where p is what URDFParser(...) gave: an exception
\* leaves the attribute as it was
StoreParser(r1, ps, p) ==
    IF p.raised # "none"
    THEN [robot |-> r1, parsers |-> ps, out |-> Raises(p.raised, p.message)]
    ELSE [robot |-> [r1 EXCEPT !.urdf_parser = NewParserId(ps)],
          parsers |-> Put(ps, NewParserId(ps), p.result), out |-> Returns(<<>>)]

\* load_urdf recording the path once the parser is stored
load_urdf_parser_first(r, files, ps, urdf_path) ==
    IF URDFParser(files, urdf_path).raised # "none"
    THEN StoreParser(r, ps, URDFParser(files, urdf_path))
    ELSE StoreParser([r EXCEPT !.urdf_path = urdf_path], ps, URDFParser(files, urdf_path))

\* RobotInfo.load_urdf(urdf_path): the path is recorded, then the parser is
\* constructed and stored
load_urdf(r, files, ps, urdf_path) ==
    StoreParser([r EXCEPT !.urdf_path = urdf_path], ps, URDFParser(files, urdf_path))

\* the try of __init__ with every exception of the load tolerated
TryLoad_tolerate_all(l, urdf_path) ==
    IF l.out.raised # "none"
    THEN [robot |-> l.robot, parsers |-> l.parsers, out |-> Returns(<<>>),
          trace |-> <<Did("load_urdf", urdf_path)>>,
          log |-> <<Warning("URDF file not found", urdf_path)>>]
    ELSE [robot |-> l.robot, parsers |-> l.parsers, out |-> l.out,
          trace |-> <<Did("load_urdf", urdf_path)>>, log |-> <<>>]

\* try: self.load_urdf(...) except FileNotFoundError: logger.warning(...),
\* where l is what load_urdf did
TryLoad(l, urdf_path) ==
    IF l.out.raised = "FileNotFoundError"
    THEN [robot |-> l.robot, parsers |-> l.parsers, out |-> Returns(<<>>),
          trace |-> <<Did("load_urdf", urdf_path)>>,
          log |-> <<Warning("URDF file not found", urdf_path)>>]
    ELSE [robot |-> l.robot, parsers |-> l.parsers, out |-> l.out,
          trace |-> <<Did("load_urdf", urdf_path)>>, log |-> <<>>]

\* the block of __init__ that loads the description: if self._config.urdf_path:
\* try load_urdf, except FileNotFoundError: warn
AutoLoad(r, urdf_path, files, ps) ==
    IF urdf_path = ""
    THEN [robot |-> r, parsers |-> ps, out |-> Returns(<<>>), trace |-> <<>>, log |-> <<>>]
    ELSE TryLoad(load_urdf(r, files, ps, urdf_path), urdf_path)

\* the slot of the configuration a RobotInfo got from the registry
RobotSlot == "robot"

\* a construction that raised: nothing is kept
Failed(out, trace, h, ps) ==
    [out |-> out, trace |-> trace, log |-> <<>>, robot |-> NoRobot, heap |-> h, parsers |-> ps,
     config |-> ClassDefaults("BaseRobotConfig")]

\* __init__ from line 76 on: the configuration new is in place and a is what
\* the loading block did
InitLoaded(h, ps, t1, new, a) ==
    IF a.out.raised # "none"
    THEN Failed(a.out, t1 \o a.trace, h, ps)
    ELSE [out |-> a.out, trace |-> t1 \o a.trace, log |-> a.log, robot |-> a.robot,
          heap |-> new.heap, parsers |-> a.parsers, config |-> new.config]

\* __init__ from line 73 on: self._config = get_robot_config(name)
InitNamed(reg, files, h, ps, r0, name, trace) ==
    IF name \notin Registered(reg)
    THEN Failed(Raises("ValueError", "Unknown robot variant"),
                Append(trace, Did("get_robot_config", name)), h, ps)
    ELSE InitLoaded(h, ps, Append(trace, Did("get_robot_config", name)),
                    NewConfig(h, RobotSlot, Lookup(reg, name)),
                    AutoLoad(r0, ClassDefaults(Lookup(reg, name)).urdf_path, files, ps))

\* __init__ from line 69 on, where v is the variant given or what
\* _resolve_variant_from_env did
InitResolved(variant, reg, files, h, ps, r0, v) ==
    IF v.out.raised # "none" THEN Failed(v.out, v.trace, h, ps)
    ELSE InitNamed(reg, files, h, ps, r0,
                   IF variant.given THEN variant.value ELSE Join(v.out.result), v.trace)

\* RobotInfo.__init__(variant)
RobotInfo_init(variant, reg, e, files, h, ps) ==
    InitResolved(variant, reg, files, h, ps,
                 [exists |-> TRUE, config |-> RobotSlot, urdf_parser |-> NoParser,
                  urdf_path |-> NoPath, robot_name_from_env |-> e.ROBOT_NAME.chars],
                 IF variant.given THEN [out |-> Returns(variant.value), trace |-> <<>>]
                 ELSE resolve_variant_from_env(e, e.ROBOT_NAME.chars))

\* the parsers something still refers to
CollectParsers(ps, r) == [i \in DOMAIN ps \cap {r.urdf_parser} |-> ps[i]]

\* robot = RobotInfo(variant) or robot = RobotInfo(variant, configs=cls()),
\* where the caller holds nothing in robot yet: __init__ has no parameter
\* named configs, so a call that passes one is rejected before the body runs
NewRobotInfo(variant, cfgs) ==
    /\ ~robot.exists
    /\ IF cfgs.given
       THEN /\ call' = [Call("RobotInfo", "") EXCEPT !.arg = variant, !.config_class = cfgs.value,
                                                      !.raised = "TypeError",
                                                      !.message = "unexpected keyword argument"]
            /\ UNCHANGED <<configs, heap, robot, parsers>>
       ELSE \E i \in {RobotInfo_init(variant, registry, env, fs, heap, parsers)} :
               /\ call' = [Call("RobotInfo", "") EXCEPT !.arg = variant, !.raised = i.out.raised,
                                                         !.message = i.out.message,
                                                         !.trace = i.trace, !.log = i.log]
               /\ IF i.out.raised = "none"
                  THEN /\ robot' = i.robot
                       /\ configs' = Put(configs, RobotSlot, i.config)
                       /\ heap' = Collect(i.heap, configs')
                       /\ parsers' = CollectParsers(i.parsers, robot')
                  ELSE UNCHANGED <<configs, heap, robot, parsers>>
    /\ UNCHANGED <<registry, env, fs, caches>>

\* del robot
DropRobot ==
    /\ robot.exists
    /\ robot' = NoRobot
    /\ configs' = Del(configs, RobotSlot)
    /\ heap' = Collect(heap, configs')
    /\ parsers' = CollectParsers(parsers, robot')
    /\ call' = Call("del", RobotSlot)
    /\ UNCHANGED <<registry, env, fs, caches>>

\* robot.load_urdf(urdf_path)
RobotLoadUrdf(urdf_path) ==
    /\ robot.exists
    /\ \E l \in {load_urdf(robot, fs, parsers, urdf_path)} :
          /\ robot' = l.robot
          /\ parsers' = CollectParsers(l.parsers, robot')
          /\ call' = [Call("load_urdf", "") EXCEPT !.key = urdf_path, !.raised = l.out.raised,
                                                    !.message = l.out.message]
    /\ UNCHANGED <<registry, configs, heap, env, fs, caches>>

\* RobotInfo.robot_name: the string __init__ read from the environment
robot_name(r) == Some(r.robot_name_from_env)

\* robot.robot_name
RobotName ==
    /\ robot.exists
    /\ call' = [Call("robot_name", "") EXCEPT !.result = robot_name(robot)]
    /\ UNCHANGED <<registry, configs, heap>>
    /\ UNCHANGED infoVars

\* robot.get_component_list()
RobotComponentList ==
    /\ robot.exists
    /\ call' = [Call("get_component_list", "") EXCEPT !.result = DOMAIN configs[robot.config].components]
    /\ UNCHANGED <<registry, configs, heap>>
    /\ UNCHANGED infoVars

\* the queries answered from the description
UrdfQueries ==
    {"get_joint_names", "get_movable_joint_names", "get_joint_limits", "get_joint_pos_limits",
     "get_joint_vel_limits", "get_joint_effort_limits", "get_link_names"}

\* [f(limit) for limit in limits.values()]
LimitValues(r) ==
    IF r.out.raised # "none" THEN r
    ELSE [r EXCEPT !.out.result = [i \in DOMAIN r.out.result |-> r.out.result[i].value]]

\* what the parser answers to query q with the argument arg
Delegate(parser, q, arg) ==
    CASE q = "get_joint_names" -> get_joint_names(parser, arg)
      [] q = "get_movable_joint_names" -> get_movable_joint_names(parser)
      [] q = "get_joint_limits" -> get_joint_limits(parser, arg)
      [] q \in {"get_joint_pos_limits", "get_joint_vel_limits", "get_joint_effort_limits"} ->
            LimitValues(get_joint_limits(parser, arg))
      [] q = "get_link_names" -> get_link_names(parser)

\* the arguments query q takes
QueryArgs(q) ==
    CASE q = "get_joint_names" -> {None, Some("revolute")}
      [] q \in {"get_movable_joint_names", "get_link_names"} -> {None}
      [] q = "get_joint_limits" -> {None, Some(<<"j1", "j9">>)}
      [] OTHER -> {None}

\* robot.q(arg): if not self.has_urdf: raise RuntimeError; else ask the parser
RobotQuery(q, arg) ==
    /\ robot.exists
    /\ IF ~has_urdf(robot)
       THEN /\ call' = [Call(q, "") EXCEPT !.arg = arg, !.raised = "RuntimeError",
                                            !.message = "URDF not loaded"]
            /\ UNCHANGED parsers
       ELSE IF robot.urdf_parser \notin DOMAIN parsers
            THEN /\ call' = [Call(q, "") EXCEPT !.arg = arg, !.raised = "AttributeError",
                                                 !.message = "NoneType has no attribute"]
                 /\ UNCHANGED parsers
            ELSE \E r \in {Delegate(parsers[robot.urdf_parser], q, arg)} :
                    /\ parsers' = [parsers EXCEPT ![robot.urdf_parser] = r.parser]
                    /\ call' = [Call(q, "") EXCEPT !.arg = arg, !.raised = r.out.raised,
                                                    !.message = r.out.message,
                                                    !.result = r.out.result]
    /\ UNCHANGED <<registry, configs, heap, env, fs, robot, caches>>

\* the values of ROBOT_CONFIG and ROBOT_NAME
RobotConfigValues ==
    {Unset, SetTo(<<>>),
     SetTo(<<"v", "e", "g", "a", "_", "1", "p">>),
     SetTo(<<"v", "e", "g", "a", "_", "1", "u", ".", "p", "y">>),
     SetTo(<<"v", "e", "g", "a", "_", "1", "u", ".", "p", "y", "c">>)}

RobotNameValues ==
    {Unset, SetTo(<<>>),
     SetTo(<<"d", "m", "/", "v", "g", "0", "1", "2", "3", "4", "5", "6", "7", "8", "9", "-", "1", "u">>),
     SetTo(<<"d", "m", "/", "x", "y", "0", "1", "2", "3", "4", "5", "6", "7", "8", "9", "-", "1", "u">>),
     SetTo(<<"v", "e", "g", "a", "_", "1", "u">>)}

\* the variant arguments and the configs arguments of RobotInfo(...)
VariantArgs == {None, Some("vega_1p"), Some("test_robot"), Some("nonexistent_robot"), Some("")}

ConfigsArgs == {None, Some("BaseRobotConfig")}

\* the description files of the two variants
Vega1pUrdf == "vega_1p/vega_1p.urdf"

Vega1UUrdf == "vega_1u/vega_1u.urdf"

Vega1pDocument ==
    <<Element("joint", "j1", "prismatic", "ok"), Element("joint", "j3", "revolute", "bad")>>

Vega1UDocument ==
    <<Element("link", "base_link", Missing, "none"), Element("joint", "j1", "revolute", "ok"),
      Element("joint", "j2", "fixed", "none")>>

\* the files at the start: the description of vega_1p missing, malformed or in
\* place, that of vega_1u in place
FileSystems ==
    {[p \in ps |-> IF p = Vega1pUrdf THEN a ELSE File(Vega1UDocument)] :
        ps \in {{Vega1UUrdf}, {Vega1pUrdf, Vega1UUrdf}},
        a \in {Malformed, File(Vega1pDocument)}}

InitInfo ==
    /\ registry = ImportedRegistry
    /\ configs = EmptyMap
    /\ heap = EmptyMap
    /\ call = Call("import", "")
    /\ \E c \in RobotConfigValues, n \in RobotNameValues : env = [ROBOT_CONFIG |-> c, ROBOT_NAME |-> n]
    /\ fs \in FileSystems
    /\ robot = NoRobot
    /\ parsers = EmptyMap
    /\ caches = ImportedCaches

NextInfo ==
    \/ Register("test_robot", "BaseRobotConfig")
    \/ \E v \in VariantArgs, c \in ConfigsArgs : NewRobotInfo(v, c)
    \/ DropRobot
    \/ \E p \in {Vega1pUrdf, Vega1UUrdf} : RobotLoadUrdf(p)
    \/ RobotComponentList
    \/ RobotName
    \/ \E q \in UrdfQueries : \E a \in QueryArgs(q) : RobotQuery(q, a)

SpecInfo == InitInfo /\ [][NextInfo]_vars

----------------------------------------------------------------------------
(* validators.py *)

\* validate_component returning False where it raises
validate_component_never_raises(component, available, raise_on_missing) ==
    Returns(component \in available)

\* validate_component, from components = robot_config.get_component_list() on
validate_component(component, available, raise_on_missing) ==
    LET has == component \in available
    IN IF ~has /\ raise_on_missing
       THEN Raises("ComponentValidationError", "does not have component")
       ELSE Returns(has)

\* validate_components, from available = robot_config.get_component_list() on
validate_components(components, available, raise_on_missing) ==
    LET missing == SelectSeq(components, LAMBDA comp : comp \notin available)
    IN IF missing # <<>> /\ raise_on_missing
       THEN Raises("ComponentValidationError", "is missing components")
       ELSE Returns(Len(missing) = 0)

\* validators.has_component
has_component(component, available) == validate_component(component, available, FALSE)

\* validators.has_all_components
has_all_components(components, available) == validate_components(components, available, FALSE)

\* get_missing_components, from available = robot_config.get_component_list() on
get_missing_components(required, available) ==
    Returns(SelectSeq(required, LAMBDA comp : comp \notin available))

\* the robot_config argument of a validator: the caller's robot, or None
TheRobot == Some(RobotSlot)

RobotConfigArgs == {None, TheRobot}

\* robot_config.get_component_list() of a robot the validator built, where i
\* is what RobotInfo() did
BuiltList(i) ==
    IF i.out.raised # "none" THEN Raises(i.out.raised, i.out.message)
    ELSE Returns(DOMAIN i.config.components)

\* if robot_config is None: robot_config = RobotInfo(); then
\* robot_config.get_component_list(): the keys, or what RobotInfo() raised
ComponentList(robot_config) ==
    IF robot_config.given
    THEN Returns(DOMAIN configs[robot.config].components)
    ELSE BuiltList(RobotInfo_init(None, registry, env, fs, heap, parsers))

\* a validator called with these arguments gave r; a RobotInfo it built for
\* itself is released when it returns
Validated(op, what, robot_config, raise_on_missing, r) ==
    /\ call' = [Call(op, "") EXCEPT
                    !.arg = Some([what |-> what, robot_config |-> robot_config,
                                  raise_on_missing |-> raise_on_missing]),
                    !.raised = r.raised, !.message = r.message, !.result = r.result]
    /\ UNCHANGED <<registry, configs, heap>>
    /\ UNCHANGED infoVars

\* validate_component(component, robot_config, raise_on_missing)
ValidateComponent(component, robot_config, raise_on_missing) ==
    /\ robot_config.given => robot.exists
    /\ \E l \in {ComponentList(robot_config)} :
        \E r \in {IF l.raised # "none" THEN l
                  ELSE validate_component(component, l.result, raise_on_missing)} :
            Validated("validate_component", component, robot_config, raise_on_missing, r)

\* validate_components(components, robot_config, raise_on_missing)
ValidateComponents(components, robot_config, raise_on_missing) ==
    /\ robot_config.given => robot.exists
    /\ \E l \in {ComponentList(robot_config)} :
        \E r \in {IF l.raised # "none" THEN l
                  ELSE validate_components(components, l.result, raise_on_missing)} :
            Validated("validate_components", components, robot_config, raise_on_missing, r)

\* has_component(component, robot_config)
HasComponent(component, robot_config) ==
    /\ robot_config.given => robot.exists
    /\ \E l \in {ComponentList(robot_config)} :
        \E r \in {IF l.raised # "none" THEN l ELSE has_component(component, l.result)} :
            Validated("has_component", component, robot_config, FALSE, r)

\* has_all_components(components, robot_config)
HasAllComponents(components, robot_config) ==
    /\ robot_config.given => robot.exists
    /\ \E l \in {ComponentList(robot_config)} :
        \E r \in {IF l.raised # "none" THEN l ELSE has_all_components(components, l.result)} :
            Validated("has_all_components", components, robot_config, FALSE, r)

\* get_missing_components(required, robot_config)
GetMissingComponents(required, robot_config) ==
    /\ robot_config.given => robot.exists
    /\ \E l \in {ComponentList(robot_config)} :
        \E r \in {IF l.raised # "none" THEN l ELSE get_missing_components(required, l.result)} :
            Validated("get_missing_components", required, robot_config, FALSE, r)

\* the component names and the lists of them the validators are asked about
ComponentArgs == {"left_arm", "chassis", "nonexistent_component"}

ComponentListArgs ==
    {<<>>, <<"left_arm", "head">>, <<"chassis", "left_arm", "torso">>,
     <<"nonexistent_component", "head", "nonexistent_component">>}

\* the environment of the validators: ROBOT_CONFIG unset, or naming a variant
ValidateEnvs ==
    {[ROBOT_CONFIG |-> c, ROBOT_NAME |-> Unset] :
        c \in {Unset, SetTo(Chars("vega_1p")), SetTo(Chars("vega_1u"))}}

InitValidate ==
    /\ registry = ImportedRegistry
    /\ configs = EmptyMap
    /\ heap = EmptyMap
    /\ call = Call("import", "")
    /\ env \in ValidateEnvs
    /\ fs = Put(EmptyMap, Vega1UUrdf, File(Vega1UDocument))
    /\ robot = NoRobot
    /\ parsers = EmptyMap
    /\ caches = ImportedCaches

NextValidate ==
    \/ Register("test_robot", "BaseRobotConfig")
    \/ \E v \in {None, Some("vega_1p"), Some("vega_1u"), Some("test_robot")} : NewRobotInfo(v, None)
    \/ DropRobot
    \/ \E c \in ComponentArgs, rc \in RobotConfigArgs, raising \in BOOLEAN : ValidateComponent(c, rc, raising)
    \/ \E cs \in ComponentListArgs, rc \in RobotConfigArgs, raising \in BOOLEAN : ValidateComponents(cs, rc, raising)
    \/ \E c \in ComponentArgs, rc \in RobotConfigArgs : HasComponent(c, rc)
    \/ \E cs \in ComponentListArgs, rc \in RobotConfigArgs : HasAllComponents(cs, rc)
    \/ \E cs \in ComponentListArgs, rc \in RobotConfigArgs : GetMissingComponents(cs, rc)

SpecValidate == InitValidate /\ [][NextValidate]_vars

----------------------------------------------------------------------------
(* What a caller does to the configuration it holds in config1 *)

\* config.components.pop(key)
PopComponent(c, key) ==
    /\ c \in DOMAIN configs
    /\ key \in DOMAIN configs[c].components
    /\ configs' = [configs EXCEPT ![c].components = Del(@, key)]
    /\ heap' = Collect(heap, configs')
    /\ call' = [Call("pop", c) EXCEPT !.key = key]
    /\ UNCHANGED registry
    /\ UNCHANGED infoVars

\* config.components[key].enabled = False
DisableByCaller(c, key) ==
    /\ c \in DOMAIN configs
    /\ key \in DOMAIN configs[c].components
    /\ heap' = [heap EXCEPT ![configs[c].components[key]].enabled = FALSE]
    /\ call' = [Call("set_enabled", c) EXCEPT !.key = key]
    /\ UNCHANGED <<registry, configs>>
    /\ UNCHANGED infoVars

\* config.components[key] = BaseComponentConfig()
ReplaceComponent(c, key) ==
    /\ c \in DOMAIN configs
    /\ key \in DOMAIN configs[c].components
    /\ LET id == NewId(heap, c)
       IN /\ configs' = [configs EXCEPT ![c].components[key] = id]
          /\ heap' = Collect(Put(heap, id, Construct("BaseComponentConfig", "")), configs')
    /\ call' = [Call("replace", c) EXCEPT !.key = key]
    /\ UNCHANGED registry
    /\ UNCHANGED infoVars

\* the arguments of the engine in the life of the whole system
SystemArgs ==
    {[hand_types |-> Put(Put(EmptyMap, "left", "DexGripper"), "right", "UNKNOWN"),
      enable_hand_type_override |-> TRUE,
      disable_estop_checking |-> TRUE,
      disable_heartbeat |-> FALSE]}

Init ==
    /\ registry = ImportedRegistry
    /\ configs = EmptyMap
    /\ heap = EmptyMap
    /\ call = Call("import", "")
    /\ InfoIdle

Next ==
    \/ \E v \in RegisterNames, cls \in RegisterClasses : Register(v, cls)
    \/ \E h \in Holders, v \in GetNames : Get(h, v)
    \/ \E h \in Holders : Drop(h)
    \/ ListVariants
    \/ PopListed
    \/ PopComponent("config1", "left_arm")
    \/ DisableByCaller("config1", "head")
    \/ ReplaceComponent("config1", "head")
    \/ \E a \in SystemArgs : ApplyOverride("config1", a)

Spec == Init /\ [][Next]_vars

----------------------------------------------------------------------------
(* Properties of the override engine.  In a step that is a call of the     *)
(* engine, the unprimed variables are the state the call starts in and the *)
(* primed ones the state it leaves.                                        *)

IsOverride == call'.op = "override"

\* the call returned (it did not end in an exception)
Returned == IsOverride /\ call'.raised = "none"

Before == configs[call'.cfg].components

After == configs'[call'.cfg].components

Given(s) == s \in DOMAIN call'.args.hand_types

Detected(s) == call'.args.hand_types[s]

Logged(msg, key) == \E i \in DOMAIN call.log : call.log[i] = Warning(msg, key)

\* what a configuration holds, by value: every field of every component
ConfigValue(cfg, h) ==
    [cfg EXCEPT !.components = [k \in DOMAIN cfg.components |-> h[cfg.components[k]]],
                !.sensors = [k \in DOMAIN cfg.sensors |-> h[cfg.sensors[k]]]]

KnownHands(cfg, h) ==
    \A s \in Sides : HandKey(s) \in DOMAIN cfg.components
                        => h[cfg.components[HandKey(s)]].kind \in HandKinds

\* the HandType-to-kind table as the specification gives it
TableKind(t) ==
    CASE t = "DexGripper" -> "DexDGripperConfig"
      [] t = "HandF5D6_V1" -> "F5D6HandV1Config"
      [] t = "HandF5D6_V2" -> "F5D6HandV2Config"

\* C1: idempotence.  When the engine is applied again to the same
\* configuration with the same arguments, and the hands the configuration
\* has are of the four known hand kinds, the second application leaves the
\* configuration as the first one left it: same keys, and kind, side,
\* enabled flag, pass-through flag and every other field of every component.
C1_Idempotent ==
    [][(IsOverride /\ call'.repeat /\ KnownHands(configs[call'.cfg], heap))
          => ConfigValue(configs'[call'.cfg], heap') = ConfigValue(configs[call'.cfg], heap)]_vars

\* a second application has run on a configuration whose left hand the first
\* one had to construct or keep for a detected HandF5D6_V1
C1_Witness ==
    /\ call.op = "override" /\ call.repeat /\ call.raised = "none"
    /\ "left" \in DOMAIN call.args.hand_types
    /\ call.args.hand_types["left"] = "HandF5D6_V1"
    /\ "left_hand" \in DOMAIN configs[call.cfg].components
    /\ heap[configs[call.cfg].components["left_hand"]].kind = "F5D6HandV1Config"
    /\ "left_arm" \in DOMAIN configs[call.cfg].components
    /\ call.args.disable_estop_checking

C4_Unchanged ==
    [][IsOverride =>
        \A s \in Sides :
            (/\ Given(s) /\ HandKey(s) \in DOMAIN Before /\ Detected(s) # "UNKNOWN"
             /\ \/ /\ heap[Before[HandKey(s)]].kind \in DOMAIN hand_type_mapping
                   /\ hand_type_mapping[heap[Before[HandKey(s)]].kind] = Detected(s)
                \/ ~call'.args.enable_hand_type_override) =>
            /\ HandKey(s) \in DOMAIN After
            /\ After[HandKey(s)] = Before[HandKey(s)]
            /\ heap'[After[HandKey(s)]] = heap[Before[HandKey(s)]]]_vars

\* a single gripper stored disabled on the left met a detected HandF5D6_V2
\* with the override switched off, and is still there, disabled
C4_Witness ==
    /\ call.op = "override" /\ call.raised = "none"
    /\ Logged("Detected", "left_hand")
    /\ call.args.hand_types["left"] = "HandF5D6_V2"
    /\ heap[configs[call.cfg].components["left_hand"]].kind = "DexSGripperConfig"
    /\ ~heap[configs[call.cfg].components["left_hand"]].enabled

C7_Frame ==
    [][IsOverride =>
        LET a == call'.args
            pre == configs[call'.cfg]
            post == configs'[call'.cfg]
            given == {s \in Sides : Given(s)}
        IN /\ registry' = registry
           /\ DOMAIN configs' = DOMAIN configs
           /\ \A x \in DOMAIN configs \ {call'.cfg} :
                 ConfigValue(configs'[x], heap') = ConfigValue(configs[x], heap)
           /\ post.robot_model = pre.robot_model
           /\ post.abbr = pre.abbr
           /\ post.urdf_path = pre.urdf_path
           /\ post.querables = pre.querables
           /\ post.sensors = pre.sensors
           /\ \A k \in DOMAIN pre.sensors : heap'[post.sensors[k]] = heap[pre.sensors[k]]
           /\ DOMAIN pre.components \subseteq DOMAIN post.components
           /\ \A k \in DOMAIN post.components :
                 \/ k \in {HandKey(s) : s \in given}
                 \/ /\ k \in DOMAIN pre.components
                    /\ post.components[k] = pre.components[k]
                    /\ LET o == heap[pre.components[k]]
                           o2 == heap'[post.components[k]]
                       IN \/ o2 = o
                          \/ /\ k = "estop" /\ a.disable_estop_checking
                             /\ o2 = [o EXCEPT !.enabled = o2.enabled]
                          \/ /\ k = "heartbeat" /\ a.disable_heartbeat
                             /\ o2 = [o EXCEPT !.enabled = o2.enabled]
                          \/ /\ k \in {ArmKey(s) : s \in given}
                             /\ o2 = [o EXCEPT !.enable_ee_pass_through = o2.enable_ee_pass_through]]_vars

\* the left hand was overridden by a call whose hand_types has the key
\* "center" and not the key "right"; the right arm still passes through and
\* the right hand, the torso and the estop are there
C7_Witness ==
    /\ call.op = "override"
    /\ DOMAIN call.args.hand_types = {"left", "center"}
    /\ Logged("Override", "left_hand")
    /\ {"right_arm", "right_hand", "torso", "estop"} \subseteq DOMAIN configs[call.cfg].components
    /\ heap[configs[call.cfg].components["right_arm"]].enable_ee_pass_through
    /\ heap[configs[call.cfg].components["right_hand"]].enabled
    /\ heap[configs[call.cfg].components["estop"]].enabled

\* what a call does to the component under `key` given the flag for it
SafetyRule(key, flag) ==
    IF key \in DOMAIN Before
    THEN /\ key \in DOMAIN After
         /\ After[key] = Before[key]
         /\ heap'[After[key]].enabled = IF flag THEN FALSE ELSE heap[Before[key]].enabled
    ELSE key \notin DOMAIN After

\* C8: safety components.  In every call, for any hand_types: an existing
\* "estop" has enabled = false afterwards when disable_estop_checking is
\* true and its previous enabled flag when it is false, and a missing
\* "estop" is not created; likewise "heartbeat" with disable_heartbeat.
C8_SafetyDisable ==
    [][IsOverride =>
        /\ SafetyRule("estop", call'.args.disable_estop_checking)
        /\ SafetyRule("heartbeat", call'.args.disable_heartbeat)]_vars

\* estop disabled by a call with an empty hand_types that leaves the
\* heartbeat enabled
C8_Witness ==
    /\ call.op = "override"
    /\ call.args.hand_types = EmptyMap
    /\ Logged("EStop checking is disabled", "estop")
    /\ ~call.args.disable_heartbeat
    /\ ~heap[configs[call.cfg].components["estop"]].enabled
    /\ "heartbeat" \in DOMAIN configs[call.cfg].components
    /\ heap[configs[call.cfg].components["heartbeat"]].enabled

----------------------------------------------------------------------------
(* Properties of the registry *)

\* what a default_factory dict holds, by value
DictValue(items) ==
    [k \in {items[i][1] : i \in DOMAIN items} |->
        LET it == items[CHOOSE i \in DOMAIN items : items[i][1] = k]
        IN Construct(it[2], it[3])]

\* the default contents of a configuration class, by value
DefaultValue(cls) ==
    [ClassDefaults(cls) EXCEPT !.components = DictValue(@), !.sensors = DictValue(@)]

\* holder x has the configuration and the objects it had
Untouched(x) ==
    /\ x \in DOMAIN configs'
    /\ configs'[x] = configs[x]
    /\ \A id \in Refs(configs[x]) : heap'[id] = heap[id]

\* C9: instance independence.  A get that returns stores a configuration
\* with the default contents of the class registered for the variant, made
\* of objects none of which existed before and no two of which are the same,
\* and leaves every instance held elsewhere as it was; whatever the caller
\* then does to one instance (pop or replace a component, disable one, run
\* the engine) leaves the instances of the other holders as they were; and
\* no object is ever in two instances.
C9_Independent ==
    [][/\ (call'.op = "get" /\ call'.raised = "none") =>
            LET new == configs'[call'.cfg]
            IN /\ ConfigValue(new, heap') = DefaultValue(Lookup(registry, call'.variant))
               /\ Refs(new) \cap DOMAIN heap = {}
               /\ Cardinality(Refs(new))
                     = Cardinality(DOMAIN new.components) + Cardinality(DOMAIN new.sensors)
               /\ \A x \in DOMAIN configs : Untouched(x)
       /\ call'.op \in {"pop", "set_enabled", "replace", "override"} =>
            \A x \in DOMAIN configs \ {call'.cfg} : Untouched(x)
       /\ \A x, y \in DOMAIN configs' :
            x # y => Refs(configs'[x]) \cap Refs(configs'[y]) = {}]_vars

\* config2 was fetched as vega_1p_gripper, with its left_arm, its enabled
\* head and estop and its double grippers, while config1, an instance of the
\* same class, has lost left_arm, has another head and a disabled estop
C9_Witness ==
    /\ call.op = "get" /\ call.raised = "none" /\ call.cfg = "config2"
    /\ call.variant = "vega_1p_gripper"
    /\ "config1" \in DOMAIN configs
    /\ configs["config1"].urdf_path = configs["config2"].urdf_path
    /\ "left_arm" \notin DOMAIN configs["config1"].components
    /\ heap[configs["config1"].components["head"]].kind = "BaseComponentConfig"
    /\ ~heap[configs["config1"].components["estop"]].enabled
    /\ "left_arm" \in DOMAIN configs["config2"].components
    /\ heap[configs["config2"].components["head"]].kind = "Vega1HeadConfig"
    /\ heap[configs["config2"].components["estop"]].enabled

\* C10: unknown variant.  get(name) raises ValueError exactly when name is
\* not registered at the time of the call; the error lists the registered
\* names, all of them and nothing else, and the call constructs nothing and
\* leaves the registry and every configuration as they were.
C10_UnknownVariant ==
    [][call'.op = "get" =>
        IF call'.variant \in {registry[i].variant : i \in DOMAIN registry}
        THEN call'.raised = "none"
        ELSE /\ call'.raised = "ValueError"
             /\ call'.listed = [i \in DOMAIN registry |-> registry[i].variant]
             /\ UNCHANGED <<registry, configs, heap>>]_vars

\* get("nonexistent_robot") failed after vega_x was registered, with the
\* seven names in its message
C10_Witness ==
    /\ call.op = "get" /\ call.raised = "ValueError"
    /\ call.variant = "nonexistent_robot"
    /\ Len(call.listed) = 7
    /\ call.listed[7] = "vega_x"

\* C11: last registration wins.  register(name, factory) never fails and
\* leaves the registry holding factory for name, the factory of every other
\* name as it was and every name that was registered still registered;
\* nothing but register changes the registry; and a get that returns builds
\* its result with the factory the registry holds for the name, which is
\* therefore the one of the most recent register call for it.
C11_LastRegistrationWins ==
    [][/\ call'.op = "register" =>
            /\ call'.raised = "none"
            /\ Lookup(registry', call'.variant) = call'.config_class
            /\ \A n \in Registered(registry) \ {call'.variant} :
                  Lookup(registry', n) = Lookup(registry, n)
            /\ Registered(registry') = Registered(registry) \cup {call'.variant}
       /\ call'.op # "register" => registry' = registry
       /\ Registered(registry) \subseteq Registered(registry')
       /\ (call'.op = "get" /\ call'.raised = "none") =>
            /\ call'.config_class = Lookup(registry, call'.variant)
            /\ ConfigValue(configs'[call'.cfg], heap') = DefaultValue(call'.config_class)]_vars

\* vega_1u was registered again with the class of vega_1p_f5d6, and
\* get("vega_1u") returned a configuration of that class, with its hands
C11_Witness ==
    /\ call.op = "get" /\ call.raised = "none" /\ call.variant = "vega_1u"
    /\ call.config_class = "Vega1pF5D6Config"
    /\ configs[call.cfg].urdf_path = "vega_1p/vega_1p_f5d6.urdf"
    /\ "left_hand" \in DOMAIN configs[call.cfg].components
    /\ Len(registry) = 6

\* C12: list_variants order.  list_variants() returns every registered name
\* once, in registration order: a register call of a new name puts it after
\* all the others and a register call of a name already registered moves no
\* name; get(V) succeeds, with a non-empty robot_model, for every V the list
\* would hold; and removing an element from a returned list changes neither
\* the registry nor what the next list_variants() returns.
C12_ListVariants ==
    [][/\ call'.op = "list_variants" =>
            /\ Len(call'.listed) = Len(registry)
            /\ \A i \in DOMAIN registry : call'.listed[i] = registry[i].variant
            /\ \A i, j \in DOMAIN call'.listed : call'.listed[i] = call'.listed[j] => i = j
            /\ registry' = registry
       /\ call'.op = "register" =>
            Keys(registry') = IF call'.variant \in Registered(registry)
                              THEN Keys(registry)
                              ELSE Append(Keys(registry), call'.variant)
       /\ (call'.op = "get" /\ \E i \in DOMAIN registry : registry[i].variant = call'.variant) =>
            /\ call'.raised = "none"
            /\ configs'[call'.cfg].robot_model # ""
       /\ call'.op = "list_pop" =>
            /\ registry' = registry
            /\ Len(call'.listed) = Len(registry) - 1]_vars

\* list_variants() after vega_x was registered and vega_1u registered again:
\* vega_1u is still the fourth name and vega_x the seventh
C12_Witness ==
    /\ call.op = "list_variants"
    /\ Len(call.listed) = 7
    /\ call.listed[4] = "vega_1u" /\ call.listed[7] = "vega_x"
    /\ Lookup(registry, "vega_1u") = "Vega1pF5D6Config"

----------------------------------------------------------------------------
(* Properties of the resolver *)

\* version: digits optionally followed by one lowercase letter, or rc<digits>
IsVersion(v) ==
    \/ \E n \in 1..Len(v) :
          /\ \A i \in 1..n : v[i] \in Digits
          /\ \/ n = Len(v)
             \/ n + 1 = Len(v) /\ v[Len(v)] \in Lower
    \/ /\ Len(v) >= 3 /\ v[1] = "r" /\ v[2] = "c"
       /\ \A i \in 3..Len(v) : v[i] \in Digits

\* the exact shape dm/<12 alphanumerics>-<version>
SerialShape(s) ==
    /\ Len(s) >= 17
    /\ SubSeq(s, 1, 3) = <<"d", "m", "/">>
    /\ \A i \in 4..15 : s[i] \in Lower \cup Upper \cup Digits
    /\ s[16] = "-"
    /\ IsVersion(SubSeq(s, 17, Len(s)))

\* the known abbreviations and their types
KnownType(abbr) ==
    CASE abbr = <<"v", "g">> -> <<"v", "e", "g", "a">>
      [] OTHER -> <<>>

\* C14: serial-name parsing.  _derive_variant_from_robot_name(s) returns
\* "<type>_<version>" exactly when s has the exact shape
\* dm/<12 alphanumerics>-<version> and its first two characters after "dm/"
\* are a known abbreviation; a well-shaped s with an unknown abbreviation
\* raises the unknown-abbreviation ValueError; and every other string, one
\* with an extra character before or after the shape included, raises the
\* invalid-format ValueError.
C14_SerialParsing ==
    call.op = "derive" =>
        LET s == call.text
        IN IF SerialShape(s)
           THEN IF KnownType(SubSeq(s, 4, 5)) # <<>>
                THEN /\ call.raised = "none"
                     /\ call.result = KnownType(SubSeq(s, 4, 5)) \o <<"_">> \o SubSeq(s, 17, Len(s))
                ELSE /\ call.raised = "ValueError"
                     /\ call.message = "Unknown robot abbreviation"
           ELSE /\ call.raised = "ValueError"
                /\ call.message = "Invalid robot name format"

----------------------------------------------------------------------------
(* Properties of the description parser *)

\* the description the caller's parser was built from
Root == parsers[TheParser].root

\* the name a child of the root goes by
NameOf(e) == IF e.name = Missing THEN "" ELSE e.name

\* n is a joint of the description
IsJoint(n) == \E i \in DOMAIN Root : Root[i].tag = "joint" /\ NameOf(Root[i]) = n

\* the joint n of the description: the last <joint> element of that name
JointAt(n) ==
    CHOOSE i \in DOMAIN Root :
        /\ Root[i].tag = "joint" /\ NameOf(Root[i]) = n
        /\ \A j \in (i + 1)..Len(Root) : ~(Root[j].tag = "joint" /\ NameOf(Root[j]) = n)

\* the names of the joints, each once, in the order of their first element
JointNames == get_joint_names(parsers[TheParser], None).out.result

SeqRange(q) == {q[i] : i \in DOMAIN q}

NoRepeats(q) == \A i, j \in DOMAIN q : q[i] = q[j] => i = j

\* C19: get_joint_limits(names).  When the call returns, the result's keys
\* are exactly the requested names (all the joints when names is omitted)
\* that are joints of the description and whose joint declares a <limit>,
\* each once; the value under a key is the limit that joint's element
\* declares, never a default.
C19_JointLimits ==
    (call.op = "get_joint_limits" /\ call.raised = "none") =>
        LET requested == IF call.arg.given THEN SeqRange(call.arg.value)
                         ELSE {n \in {"", "j1", "j2", "j3"} : IsJoint(n)}
            keys == DictKeys(call.result)
        IN /\ SeqRange(keys) = {n \in requested : IsJoint(n) /\ Root[JointAt(n)].limit # "none"}
           /\ NoRepeats(keys)
           /\ \A i \in DOMAIN call.result :
                 call.result[i].value = [none |-> FALSE, of |-> JointAt(call.result[i].key)]

\* j1 was asked for twice, with j9 that is no joint and j2 that has no limit:
\* the result has j1 alone
C19_Witness ==
    /\ call.op = "get_joint_limits" /\ call.raised = "none"
    /\ call.arg = Some(<<"j1", "j9", "j2", "j1">>)
    /\ DictKeys(call.result) = <<"j1">>
    /\ IsJoint("j2")

----------------------------------------------------------------------------
(* Properties of RobotInfo *)

\* the call that has just returned is RobotInfo(...) and its body ran
Constructed == call.op = "RobotInfo" /\ call.raised # "TypeError"

\* an environment value that names something
Available(v) == v.set /\ v.chars # <<>>

\* the trace holds an entry of this kind
Traced(what) == \E i \in DOMAIN call.trace : call.trace[i].what = what

\* the characters ".py"
DotPy == <<".", "p", "y">>

\* s contains ".py" somewhere
HasDotPy(s) == \E i \in 1..Len(s) : StartsWith(From(s, i - 1), DotPy)

\* s without a ".py" at its end
WithoutTrailingDotPy(s) ==
    IF Len(s) >= 3 /\ SubSeq(s, Len(s) - 2, Len(s)) = DotPy THEN SubSeq(s, 1, Len(s) - 3) ELSE s

\* C13: the variant RobotInfo looks up is the explicit argument when one is
\* given, with neither environment variable parsed; else the value of
\* ROBOT_CONFIG when that names something, with ROBOT_NAME not parsed; else the
\* variant derived from ROBOT_NAME; and with none of the three the construction
\* raises the "Variant not specified" ValueError before any lookup
C13_ResolverPriority ==
    Constructed =>
        IF call.arg.given
        THEN /\ ~Traced("derive")
             /\ call.trace # <<>> /\ call.trace[1] = Did("get_robot_config", call.arg.value)
             /\ call.message \notin {"Invalid robot name format", "Unknown robot abbreviation",
                                     "Variant not specified"}
        ELSE IF Available(env.ROBOT_CONFIG)
        THEN /\ ~Traced("derive")
             /\ call.trace # <<>> /\ call.trace[1].what = "get_robot_config"
             /\ ~HasDotPy(env.ROBOT_CONFIG.chars) =>
                    call.trace[1].arg = Join(env.ROBOT_CONFIG.chars)
             /\ call.message \notin {"Invalid robot name format", "Unknown robot abbreviation",
                                     "Variant not specified"}
        ELSE IF Available(env.ROBOT_NAME)
        THEN LET d == derive_variant_from_robot_name(env.ROBOT_NAME.chars)
             IN /\ call.trace # <<>> /\ call.trace[1] = Did("derive", Join(env.ROBOT_NAME.chars))
                /\ IF d.raised = "none"
                   THEN Len(call.trace) >= 2
                        /\ call.trace[2] = Did("get_robot_config", Join(d.result))
                   ELSE call.raised = d.raised /\ call.message = d.message /\ Len(call.trace) = 1
        ELSE call.raised = "ValueError" /\ call.message = "Variant not specified"
             /\ call.trace = <<>>

\* ROBOT_CONFIG names a variant while ROBOT_NAME is malformed, and the robot
\* was built from ROBOT_CONFIG
C13_Witness ==
    /\ Constructed /\ ~call.arg.given /\ call.raised = "none" /\ robot.exists
    /\ Available(env.ROBOT_CONFIG)
    /\ Available(env.ROBOT_NAME)
    /\ derive_variant_from_robot_name(env.ROBOT_NAME.chars).raised = "ValueError"

\* C15: with no explicit variant and ROBOT_CONFIG set to a non-empty value v,
\* the name looked up is v without a ".py" at its end, and v itself when v
\* does not end in ".py"
C15_ConfigNameOverride ==
    (Constructed /\ ~call.arg.given /\ Available(env.ROBOT_CONFIG)) =>
        /\ call.trace # <<>>
        /\ call.trace[1] = Did("get_robot_config",
                               Join(WithoutTrailingDotPy(env.ROBOT_CONFIG.chars)))

\* C16: RobotInfo(configs=c) wraps c with no lookup and no resolution, and
\* RobotInfo(variant, configs=c) raises the "Cannot specify both" ValueError
C16_ExplicitConfiguration ==
    (call.op = "RobotInfo" /\ call.config_class # "") =>
        /\ call.trace = <<>>
        /\ IF call.arg.given
           THEN call.raised = "ValueError" /\ call.message = "Cannot specify both" /\ ~robot.exists
           ELSE call.raised = "none" /\ robot.exists

\* the variant the construction looked up, and the description path of its class
LookedUp == call.trace[CHOOSE i \in DOMAIN call.trace : call.trace[i].what = "get_robot_config"].arg

PathOf(variant) == ClassDefaults(Lookup(registry, variant)).urdf_path

\* C17: a construction that found its variant attempts no load when the
\* urdf_path of the configuration is empty; succeeds without a description
\* when the path is not empty and no file is there; and fails with the parse
\* error when the file is there and is not well-formed. A robot without a
\* description still answers get_component_list
C17_LoadDuringConstruction ==
    /\ (Constructed /\ Traced("get_robot_config") /\ LookedUp \in Registered(registry)) =>
          LET path == PathOf(LookedUp)
          IN /\ path = "" =>
                  ~Traced("load_urdf") /\ call.raised = "none" /\ robot.exists
                  /\ robot.urdf_parser = NoParser
             /\ (path # "" /\ path \notin DOMAIN fs) =>
                  /\ call.raised = "none" /\ robot.exists
                  /\ robot.urdf_parser = NoParser /\ ~has_urdf(robot)
                  /\ call.log = <<Warning("URDF file not found", path)>>
             /\ (path # "" /\ path \in DOMAIN fs /\ ~fs[path].wellformed) =>
                  call.raised = "ParseError" /\ ~robot.exists
             /\ (path # "" /\ path \in DOMAIN fs /\ fs[path].wellformed) =>
                  call.raised = "none" /\ robot.exists /\ has_urdf(robot)
    /\ (call.op = "get_component_list" /\ robot.exists) =>
          call.raised = "none" /\ call.result = DOMAIN configs[robot.config].components

\* the description of the looked-up variant is there and malformed
C17_Witness ==
    /\ Constructed /\ Traced("get_robot_config") /\ LookedUp \in Registered(registry)
    /\ PathOf(LookedUp) \in DOMAIN fs
    /\ ~fs[PathOf(LookedUp)].wellformed
    /\ call.raised = "ParseError"

\* the description is missing and the robot answers get_component_list
C17_WitnessMissing ==
    /\ call.op = "get_component_list" /\ robot.exists
    /\ robot.urdf_path # NoPath /\ robot.urdf_path \notin DOMAIN fs
    /\ call.result # {}

\* the construction looked up a class whose urdf_path is empty
C17_WitnessEmpty ==
    /\ Constructed /\ Traced("get_robot_config") /\ LookedUp \in Registered(registry)
    /\ PathOf(LookedUp) = ""
    /\ robot.exists

\* a description was parsed for the robot
Loaded == robot.urdf_parser \in DOMAIN parsers

\* C18: has_urdf is true exactly when a description was parsed; a
\* description-derived query of a robot whose has_urdf is false raises the
\* "URDF not loaded" RuntimeError and changes nothing, and one of a robot whose
\* has_urdf is true does not raise that error
C18_NotLoaded ==
    [][/\ robot.exists => (has_urdf(robot) <=> Loaded)
       /\ (robot.exists /\ robot' = robot /\ call'.op \in UrdfQueries /\ call' # call) =>
            IF Loaded
            THEN call'.message # "URDF not loaded" /\ call'.raised # "RuntimeError"
            ELSE /\ call'.raised = "RuntimeError" /\ call'.message = "URDF not loaded"
                 /\ UNCHANGED <<registry, configs, heap, env, fs, robot, parsers, caches>>]_vars

\* a query of a robot whose load failed after the path was recorded
C18_Witness ==
    /\ call.op \in UrdfQueries /\ robot.exists
    /\ robot.urdf_path # NoPath /\ ~Loaded
    /\ call.raised = "RuntimeError"

\* a query of a robot with a description returned
C18_WitnessLoaded ==
    /\ call.op = "get_joint_limits" /\ robot.exists /\ Loaded
    /\ call.raised = "none"

----------------------------------------------------------------------------
(* Properties of the parser's joint cache *)

\* the joint records of the parser's file
Extracted(parser) == JointsLoop(parser.root, FindAll(parser.root, "joint", 1), <<>>)

\* C24: a constructed parser holds the joint records of its file in its
\* joint cache, before any query and after every query
C24_EagerParsing ==
    TheParser \in DOMAIN parsers =>
        /\ parsers[TheParser].joints_cache.filled
        /\ Extracted(parsers[TheParser]).raised = "none"
        /\ parsers[TheParser].joints_cache.joints = Extracted(parsers[TheParser]).result

----------------------------------------------------------------------------
(* Properties of the validators *)

\* the call that has just returned is this validator, and it had a robot
\* to ask: the caller's, or one it could build from the environment
Asked(op) == call.op = op /\ ComponentList(call.arg.value.robot_config).raised = "none"

\* the keys of the component map of the robot the call asked
AskedKeys == ComponentList(call.arg.value.robot_config).result

\* the names of a list that are no keys of the component map
AbsentNames(names) == {names[i] : i \in {j \in DOMAIN names : names[j] \notin AskedKeys}}

ValidatorOps ==
    {"validate_component", "validate_components", "has_component", "has_all_components",
     "get_missing_components"}

\* what C22 says of the answer of the call that has just returned
ValidatorAnswers ==
    /\ Asked("validate_component") =>
            LET a == call.arg.value
            IN IF a.what \in AskedKeys
               THEN call.raised = "none" /\ call.result = TRUE
               ELSE IF a.raise_on_missing
                    THEN call.raised = "ComponentValidationError"
                    ELSE call.raised = "none" /\ call.result = FALSE
    /\ call.op \in {"has_component", "has_all_components"} =>
            call.raised # "ComponentValidationError"
    /\ Asked("has_component") =>
            call.raised = "none" /\ call.result = (call.arg.value.what \in AskedKeys)
    /\ Asked("validate_components") =>
            LET a == call.arg.value
                missing == get_missing_components(a.what, AskedKeys).result
            IN /\ ~a.raise_on_missing => call.raised = "none" /\ (call.result <=> missing = <<>>)
               /\ a.raise_on_missing =>
                    IF AbsentNames(a.what) = {} THEN call.raised = "none" /\ call.result = TRUE
                    ELSE call.raised = "ComponentValidationError"
    /\ Asked("has_all_components") =>
            call.raised = "none" /\ (call.result <=> AbsentNames(call.arg.value.what) = {})
    /\ Asked("get_missing_components") =>
            call.raised = "none"
            /\ {call.result[i] : i \in DOMAIN call.result} = AbsentNames(call.arg.value.what)

\* C22: validate_component returns true for a key of the component map, raises
\* ComponentValidationError for another name when raise_on_missing, and
\* returns false for it otherwise; has_component and has_all_components never
\* raise that error; validate_components without raise_on_missing is true
\* exactly when get_missing_components is empty; and no validator changes
\* the robot, its configuration or the registry
C22_ComponentValidation ==
    /\ []ValidatorAnswers
    /\ [][call'.op \in ValidatorOps =>
            UNCHANGED <<registry, configs, heap, robot, parsers, env, fs, caches>>]_vars

\* validate_component raised for a name the caller's robot does not have
C22_Witness ==
    /\ Asked("validate_component") /\ call.arg.value.robot_config.given
    /\ AskedKeys # {} /\ call.arg.value.what \notin AskedKeys
    /\ call.raised = "ComponentValidationError"

\* validate_components returned false for a robot built from the environment
C22_WitnessFalse ==
    /\ Asked("validate_components") /\ ~call.arg.value.robot_config.given
    /\ call.raised = "none" /\ call.result = FALSE

----------------------------------------------------------------------------
(* Properties of the abbreviation table *)

\* the robot_model of the class registered at position i
ModelAt(reg, i) == Chars(ClassDefaults(reg[i].config_class).robot_model)

AbbrAt(reg, i) == ClassDefaults(reg[i].config_class).abbr

\* s up to its last underscore, or s when it has none
BeforeLastUnderscore(s) ==
    IF \E i \in DOMAIN s : s[i] = "_"
    THEN SubSeq(s, 1, (CHOOSE i \in DOMAIN s : s[i] = "_" /\ \A j \in DOMAIN s : s[j] = "_" => j <= i) - 1)
    ELSE s

\* the table the variants of reg give: each abbreviation with the type of the
\* first variant that has it
TableOf(reg) ==
    [a \in {AbbrAt(reg, i) : i \in DOMAIN reg} |->
        BeforeLastUnderscore(
            ModelAt(reg, CHOOSE i \in DOMAIN reg :
                            AbbrAt(reg, i) = a /\ \A j \in DOMAIN reg : AbbrAt(reg, j) = a => i <= j))]

\* C25: the table is the one the variants registered at import give, visited
\* in order with the first of an abbreviation deciding its type, whatever is
\* registered later: every call of the builder returns that table, and a
\* serial name with an abbreviation registered later is not resolved. Built
\* from any registry reached, the table is the one described
C25_AbbreviationTable ==
    /\ caches.abbreviations.filled
    /\ caches.abbreviations.mapping = TableOf(ImportedRegistry)
    /\ ROBOT_TYPE_ABB_MAPPING = TableOf(ImportedRegistry)
    /\ build_robot_type_abbreviation_mapping(registry) = TableOf(registry)
    /\ call.op = "build_robot_type_abbreviation_mapping" => call.result = TableOf(ImportedRegistry)
    /\ (call.op = "derive" /\ Len(call.text) >= 5
        /\ Join(SubSeq(call.text, 4, 5)) \notin DOMAIN TableOf(ImportedRegistry)) =>
            call.raised = "ValueError" /\ call.message = "Unknown robot abbreviation"

\* a class with the abbreviation "xy" is registered, the builder was called
\* again and its table has no "xy"
C25_Witness ==
    /\ call.op = "build_robot_type_abbreviation_mapping"
    /\ \E i \in DOMAIN registry : AbbrAt(registry, i) = "xy"
    /\ "xy" \notin DOMAIN call.result

\* a serial name with "xy" is not resolved although "xy" is registered, and
\* two registered classes with "xy" have different types
C25_WitnessDerive ==
    /\ call.op = "derive" /\ call.message = "Unknown robot abbreviation"
    /\ \E i, j \in DOMAIN registry :
          /\ i < j /\ AbbrAt(registry, i) = "xy" /\ AbbrAt(registry, j) = "xy"
          /\ BeforeLastUnderscore(ModelAt(registry, i)) # BeforeLastUnderscore(ModelAt(registry, j))

----------------------------------------------------------------------------
(* Properties of the facade's attributes *)

\* C26: robot_name is the value of ROBOT_NAME when the variant was derived
\* from it, and None when the variant came from ROBOT_CONFIG or from the
\* explicit argument
C26_RobotName ==
    /\ (Constructed /\ call.raised = "none") =>
          IF Traced("derive")
          THEN robot_name(robot) = Some(env.ROBOT_NAME.chars)
          ELSE robot_name(robot) = None
    /\ (call.op = "robot_name" /\ robot.exists) => call.result = robot_name(robot)

\* the parser the robot's queries are answered from
TheRobotsParser == parsers[robot.urdf_parser]

C29_WitnessMalformed ==
    /\ call.op = "load_urdf" /\ call.raised = "ParseError"
    /\ robot.exists /\ Loaded /\ robot.urdf_path = call.key

----------------------------------------------------------------------------
(* Properties of the engine's tables and of its repeated application *)

\* the component object stored at a key of config1
Stored(key) == heap[configs["config1"].components[key]]

\* the call logged this warning for the key
Warned(msg, key) == \E i \in DOMAIN call.log : call.log[i] = Warning(msg, key)

\* C23: the kind constructed for a hand type other than UNKNOWN is a key of
\* the kind table and maps back to that type, and every type the kind table
\* gives has a kind to construct; so a hand the engine injected or wrote over
\* for a detected type matches that type, and the same application again
\* neither writes over it nor warns of a mismatch
C23_HandTables ==
    /\ \A h \in HandType \ {"UNKNOWN"} :
          /\ h \in DOMAIN hand_type_reverse_mapping
          /\ hand_type_reverse_mapping[h] \in DOMAIN hand_type_mapping
          /\ hand_type_mapping[hand_type_reverse_mapping[h]] = h
    /\ \A k \in DOMAIN hand_type_mapping : hand_type_mapping[k] \in DOMAIN hand_type_reverse_mapping
    /\ (call.op = "override" /\ call.raised = "none") =>
          \A side \in Sides :
              /\ (Warned("Override", HandKey(side)) \/ Warned("Auto-adding", HandKey(side))) =>
                    /\ HandKey(side) \in DOMAIN configs["config1"].components
                    /\ Stored(HandKey(side)).kind \in DOMAIN hand_type_mapping
                    /\ hand_type_mapping[Stored(HandKey(side)).kind] = call.args.hand_types[side]
              /\ call.repeat =>
                    /\ ~Warned("Override", HandKey(side))
                    /\ ~Warned("Auto-adding", HandKey(side))
                    /\ (call.args.enable_hand_type_override
                        /\ side \in DOMAIN call.args.hand_types
                        /\ call.args.hand_types[side] # "UNKNOWN") =>
                            ~Warned("Detected", HandKey(side))

\* the same application again found the hand it had constructed for a
\* detected HandF5D6_V1
C23_Witness ==
    /\ call.op = "override" /\ call.raised = "none" /\ call.repeat
    /\ "left" \in DOMAIN call.args.hand_types
    /\ call.args.hand_types["left"] = "HandF5D6_V1"
    /\ "left_hand" \in DOMAIN configs["config1"].components
    /\ Stored("left_hand").kind = hand_type_reverse_mapping["HandF5D6_V1"]

\* the components dict of config1, and the keys the engine may disable
Components == configs["config1"].components

DisabledKeys == {"estop", "heartbeat", "left_hand", "right_hand"}

\* C27: an application of the engine enables nothing: a component object
\* that stays at "estop", "heartbeat" or a hand key is enabled afterwards only
\* if it was before, and a hand key that was disabled holds an enabled hand
\* afterwards only when the application wrote a new hand over it on a mismatch
C27_NeverReenables ==
    [][call'.op = "override" =>
        \A key \in DisabledKeys :
            (key \in DOMAIN Components /\ key \in DOMAIN Components') =>
                /\ Components'[key] = Components[key] =>
                      (heap'[Components[key]].enabled => heap[Components[key]].enabled)
                /\ (heap'[Components'[key]].enabled /\ ~heap[Components[key]].enabled) =>
                      /\ Components'[key] # Components[key]
                      /\ key \in {"left_hand", "right_hand"}
                      /\ \E i \in DOMAIN call'.log : call'.log[i] = Warning("Override", key)
                      /\ call'.args.enable_hand_type_override]_vars

\* a hand whose kind matches the detected type is disabled after the
\* application: an earlier UNKNOWN detection disabled it
C27_Witness ==
    /\ call.op = "override" /\ call.raised = "none"
    /\ call.args.hand_types["left"] = "HandF5D6_V2"
    /\ "left_hand" \in DOMAIN Components
    /\ Stored("left_hand").kind = "F5D6HandV2Config"
    /\ ~Stored("left_hand").enabled

\* the hand of the side is of a kind the kind table does not have, and a
\* type other than UNKNOWN is detected for the side
Unmapped(side, a) ==
    /\ HandKey(side) \in DOMAIN Components
    /\ heap[Components[HandKey(side)]].kind \notin DOMAIN hand_type_mapping
    /\ side \in DOMAIN a.hand_types
    /\ a.hand_types[side] # "UNKNOWN"

\* the engine applied to config1 as it is, with the detected type of the left
\* side only
LeftOnly(a) ==
    runtime_override_robot_config(
        [heap |-> heap, owner |-> "config1", components |-> Components, log |-> <<>>,
         raised |-> "none"],
        [a EXCEPT !.hand_types = [s \in {"left"} \cap DOMAIN a.hand_types |-> a.hand_types[s]]])

\* what C28 says of an application that met an unmapped hand at the side
FailsAt(side, a) ==
    /\ call'.raised = "KeyError"
    /\ HandKey(side) \in DOMAIN Components'
    /\ Components'[HandKey(side)] = Components[HandKey(side)]
    /\ heap'[Components[HandKey(side)]] = heap[Components[HandKey(side)]]
    /\ (a.disable_estop_checking /\ "estop" \in DOMAIN Components) =>
          ~heap'[Components'["estop"]].enabled
    /\ (a.disable_heartbeat /\ "heartbeat" \in DOMAIN Components) =>
          ~heap'[Components'["heartbeat"]].enabled
    /\ (ArmKey(side) \in DOMAIN Components /\ HasPassThrough(heap[Components[ArmKey(side)]].kind)) =>
          ~heap'[Components'[ArmKey(side)]].enable_ee_pass_through
    /\ side = "right" =>
          \A key \in {"left_arm", "left_hand"} :
              /\ key \in DOMAIN Components' <=> key \in DOMAIN LeftOnly(a).components
              /\ key \in DOMAIN Components' =>
                    heap'[Components'[key]] = LeftOnly(a).heap[LeftOnly(a).components[key]]
    /\ side = "left" =>
          \A key \in {"right_arm", "right_hand"} \cap DOMAIN Components :
              key \in DOMAIN Components' /\ heap'[Components'[key]] = heap[Components[key]]

\* C28: an application that meets, at a side with a detected type other than
\* UNKNOWN, a hand of a kind the kind table does not have raises KeyError;
\* the hand stays as it was, and what the call did before stays done: estop
\* and heartbeat disabled, the side's arm pass-through off, and for the right
\* side everything the call does to the left side; no other application raises
C28_UnmappedHandKind ==
    [][call'.op = "override" =>
        IF Unmapped("left", call'.args) THEN FailsAt("left", call'.args)
        ELSE IF Unmapped("right", call'.args) THEN FailsAt("right", call'.args)
        ELSE call'.raised = "none"]_vars

\* the application raised at the right hand after it had written a new hand
\* over the left one and disabled estop
C28_Witness ==
    /\ call.op = "override" /\ call.raised = "KeyError"
    /\ "right_hand" \in DOMAIN Components /\ Stored("right_hand").kind = "BaseComponentConfig"
    /\ \E i \in DOMAIN call.log : call.log[i] = Warning("Override", "left_hand")
    /\ call.args.disable_estop_checking /\ ~Stored("estop").enabled
    /\ ~Stored("right_arm").enable_ee_pass_through

\* the parser cache, and the entry it has for a key
ParserCache == caches.parsers

CachedAt(cache, key) == DictGet(cache, key)

\* the most recently used distinct strings after key was used: at most four
Recent(keys, key) ==
    LET s == SelectSeq(keys, LAMBDA k : k # key) \o <<key>>
    IN IF Len(s) > 4 THEN SubSeq(s, Len(s) - 3, Len(s)) ELSE s

\* the cache holds at most four parsers, under distinct path strings
CacheBounded ==
    /\ Len(ParserCache) <= 4
    /\ \A i, j \in DOMAIN ParserCache :
          /\ ParserCache[i].key \in PathStrings
          /\ ParserCache[i].value \in DOMAIN parsers
          /\ i # j => /\ ParserCache[i].key # ParserCache[j].key
                      /\ ParserCache[i].value # ParserCache[j].value

\* a successful call leaves the four most recently used distinct strings in
\* the cache; a string that was among them gets the parser it had, with the
\* root and the joints read before; any other string gets a new parser, made
\* from the file as it is now, and the least recently used entry leaves
CacheStep ==
    (call'.op \in Conveniences /\ call'.raised = "none") =>
        LET key == call'.key
        IN /\ DictKeys(ParserCache') = Recent(DictKeys(ParserCache), key)
           /\ \A k \in PathStrings \ {key} :
                 (HasKey(ParserCache, k) /\ HasKey(ParserCache', k)) =>
                     /\ CachedAt(ParserCache', k) = CachedAt(ParserCache, k)
                     /\ parsers'[CachedAt(ParserCache, k)] = parsers[CachedAt(ParserCache, k)]
           /\ call'.op = "parse_urdf" => call'.result = CachedAt(ParserCache', key)
           /\ IF HasKey(ParserCache, key)
              THEN /\ CachedAt(ParserCache', key) = CachedAt(ParserCache, key)
                   /\ parsers'[CachedAt(ParserCache, key)].root = parsers[CachedAt(ParserCache, key)].root
                   /\ parsers[CachedAt(ParserCache, key)].joints_cache.filled =>
                         parsers'[CachedAt(ParserCache, key)] = parsers[CachedAt(ParserCache, key)]
                   /\ Len(ParserCache') = Len(ParserCache)
              ELSE /\ CachedAt(ParserCache', key) \notin DOMAIN parsers
                   /\ parsers'[CachedAt(ParserCache', key)].root = fs[Opened(key)].root
                   /\ parsers'[CachedAt(ParserCache', key)].urdf_path = key
                   /\ Len(ParserCache) = 4 =>
                         /\ ~HasKey(ParserCache', ParserCache[1].key)
                         /\ ParserCache[1].value \notin DOMAIN parsers'

\* C21: after any successful convenience-function calls the cache holds at
\* most four parsers, keyed by the path string as given; a call with one of
\* the four most recently used distinct strings returns the parser cached for
\* it without reading the file, and a call with another string constructs a
\* parser and evicts the least recently used entry
C21_BoundedParserCache == []CacheBounded /\ [][CacheStep]_vars

\* a full cache holding both spellings of one file under two parsers, the
\* string of the last call its most recent entry
C21_Witness ==
    /\ Len(ParserCache) = 4
    /\ HasKey(ParserCache, "a.urdf") /\ HasKey(ParserCache, "./a.urdf")
    /\ CachedAt(ParserCache, "a.urdf") # CachedAt(ParserCache, "./a.urdf")
    /\ call.op = "parse_urdf" /\ call.key = "d.urdf" /\ call.raised = "none"
    /\ ParserCache[4].key = "d.urdf"
    /\ ~HasKey(ParserCache, "b.urdf")

\* a hit that read nothing: the file now holds another description than the
\* parser returned
C21_WitnessHit ==
    /\ call.op = "parse_urdf" /\ call.key = "a.urdf" /\ call.raised = "none"
    /\ "a.urdf" \in DOMAIN fs /\ fs["a.urdf"] = File(SecondDocument)
    /\ parsers[call.result].root = FirstDocument

\* a call that raised because the file is missing or is not well-formed
\* leaves the cache and the parsers as they were
FailureLeavesCache ==
    (call'.op \in Conveniences /\ call'.raised # "none") =>
        /\ call'.raised \in {"FileNotFoundError", "ParseError"}
        /\ caches' = caches
        /\ parsers' = parsers
        /\ ~HasKey(ParserCache, call'.key)

\* a call with a string the cache does not have succeeds exactly if the file
\* is there and well-formed now, and then gives the file's description
MissReadsFile ==
    (call'.op \in Conveniences /\ ~HasKey(ParserCache, call'.key)) =>
        IF Opened(call'.key) \in DOMAIN fs /\ fs[Opened(call'.key)].wellformed
        THEN /\ call'.raised = "none"
             /\ parsers'[CachedAt(ParserCache', call'.key)].root = fs[Opened(call'.key)].root
        ELSE call'.raised # "none"

\* the link names of the descriptions
LinkNamesOf(root) == IF root = FirstDocument THEN <<"base_link">> ELSE <<>>

\* a call with a cached string succeeds whatever the file is now and answers
\* from what the parser read; writing or deleting a file changes no parser
\* and no entry
HitIsStale ==
    /\ (call'.op \in Conveniences /\ HasKey(ParserCache, call'.key)) =>
          /\ call'.raised = "none"
          /\ CachedAt(ParserCache', call'.key) = CachedAt(ParserCache, call'.key)
          /\ parsers'[CachedAt(ParserCache, call'.key)].root = parsers[CachedAt(ParserCache, call'.key)].root
          /\ call'.op = "get_link_names" =>
                call'.result = LinkNamesOf(parsers[CachedAt(ParserCache, call'.key)].root)
    /\ call'.op \in {"write", "unlink"} => (caches' = caches /\ parsers' = parsers)

\* C30: a call whose path is missing or malformed raises and leaves the cache
\* as it was, entries and order, so a later call with the string reads the
\* file as it is then; a call with a cached string keeps returning the same
\* parser and what it read, though the file was modified or deleted since,
\* as long as the entry is in the cache
C30_SuccessesOnlyNeverRevalidated ==
    [][FailureLeavesCache /\ MissReadsFile /\ HitIsStale]_vars

\* a call succeeded from the cache though the file is gone
C30_Witness ==
    /\ call.op = "get_link_names" /\ call.key = "a.urdf" /\ call.raised = "none"
    /\ call.result = <<"base_link">>
    /\ "a.urdf" \notin DOMAIN fs

\* a call failed on a malformed file while the cache was full
C30_WitnessFailure ==
    /\ call.op \in Conveniences /\ call.key = "./a.urdf" /\ call.raised = "ParseError"
    /\ Len(ParserCache) = 4
    /\ HasKey(ParserCache, "a.urdf")

\* a call succeeded on the second description under a string that is cached
\* with the first under its other spelling
C30_WitnessRepaired ==
    /\ call.op = "get_joint_info" /\ call.key = "./a.urdf" /\ call.raised = "none"
    /\ parsers[CachedAt(ParserCache, "./a.urdf")].root = SecondDocument
    /\ HasKey(ParserCache, "a.urdf")
    /\ parsers[CachedAt(ParserCache, "a.urdf")].root = FirstDocument

====
